---------------------------- MODULE Spec2Model ----------------------------
(***************************************************************************)
(* Verification model of the mower firmware (eleson2/mower-oo).            *)
(*                                                                         *)
(* The firmware is a set of cooperating objects driven by a cooperative    *)
(* scheduler.  Each component is modelled from its source and exercised    *)
(* by a specification of its own:                                          *)
(*   SpecWheel  Wheel (speed ramp of one wheel)                            *)
(*   SpecDrive  DriveUnit task with its two wheels                         *)
(*   SpecQueue  Queue ring buffer                                          *)
(*   SpecSeq    AllMovements pattern sequencer                             *)
(*   SpecLF     LineFollower task driving the DriveUnit                    *)
(*   SpecMM     MotionManager with its two controllers                     *)
(* and further ones for the sonar, the perimeter storage and its offset    *)
(* generator, the motor drivers, the IMU driver, the stripe mower and the  *)
(* integer mathematics.                                                    *)
(* The vendored scheduler library is not part of the source tree; its      *)
(* Task operations are modelled from the interface the specification       *)
(* document gives for it (definitions named Task...).                      *)
(***************************************************************************)
EXTENDS Integers, Sequences, FiniteSets, TLC

VARIABLES
    leftWheel,    \* DriveUnit::_leftWheel  (Wheel fields + last motor call)
    rightWheel,   \* DriveUnit::_rightWheel
    driveTask,    \* DriveUnit as a scheduler Task (enabled, iterations)
    ramp,         \* history: the ramp in progress on leftWheel (SpecWheel)
    driveHist,    \* history: last hook run on the DriveUnit and speeds before it
    qHead,        \* Queue::head
    qCount,       \* Queue::count
    qData,        \* Queue::data
    qProps,       \* Queue::properties (template argument _Properties)
    qPushed,      \* history: the values of the successful pushes, in order
    qPulled,      \* history: the values pulled since the last push
    qLast,        \* history: the last operation, its result and the state before
    seqTask,      \* AllMovements as a scheduler Task
    currMove,     \* AllMovements::currMove, the cursor into a pattern table
    CurrMotion,   \* AllMovements::CurrMotion
    seqLog,       \* history: the pattern last set and the steps delivered since
    lfTask,       \* LineFollower as a scheduler Task
    lf,           \* the LineFollower's members
    gps,          \* GPSInterface: position and fix
    imu,          \* IMUInterface: heading and initialised flag
    lfLog,        \* history: the LineFollower's last operation and its command
    mmActive,     \* MotionManager::_activeController
    mmState,      \* MotionManager::_currentState
    ctl,          \* _isActive and _state of both controllers
    mmHist,       \* history: start() and stop() calls on the controllers
    mmCalls,      \* history: the calls made on the manager (SpecMotion)
    sonTask,      \* sSonar as a scheduler Task
    son,          \* sSonar: SonarDistance, the attached echo handler
    sonLog,       \* history: the sonar's last operation and its measurements
    perim,        \* PerimeterStorage
    perimLog,     \* history: the storage's last operation, the points it holds
    l298,         \* an L298 driver and its pins
    vmotor,       \* a VirtualMotor
    hbridge,      \* a HighPowerHBridgeMotor and its pins
    hbPend,       \* the writes the H-bridge call in progress has yet to make
    motLog,       \* history: the last call made on a motor driver
    mower,        \* ParallelStripeMower
    mowLog,       \* history: the last operation on the mower
    offs,         \* a PerimeterOffset generating from perim
    offLog,       \* history: the last operation on the offset generator
    imuLog,       \* history: the last call made on the IMU driver
    calc          \* the last call of a pure function: its name, input, result

wheelVars == <<leftWheel, rightWheel, driveTask, ramp, driveHist>>
queueVars == <<qHead, qCount, qData, qProps, qPushed, qPulled, qLast>>
seqVars == <<seqTask, currMove, CurrMotion, seqLog>>
lfVars == <<lfTask, lf, gps, imu, lfLog>>
mmVars == <<mmActive, mmState, ctl, mmHist, mmCalls>>
sonarVars == <<sonTask, son, sonLog>>
perimVars == <<perim, perimLog>>
motVars == <<l298, vmotor, hbridge, hbPend, motLog>>
mowerVars == <<mower, mowLog>>
offsetVars == <<offs, offLog>>
calcVars == <<imuLog, calc>>
vars == <<wheelVars, queueVars, seqVars, lfVars, mmVars, sonarVars, perimVars,
          motVars, mowerVars, offsetVars, calcVars>>

-----------------------------------------------------------------------------
(* Bounds of the model *)

\* largest iteration count handed to Wheel::setWheelSpeed in SpecWheel
MaxIter == 3

\* most setTargetSpeed commands in one behaviour of SpecDrive
MaxCmds == 2

\* most setCurrentPattern calls in one behaviour of SpecSeq
MaxSets == 1

\* most steps the sequencer delivers after one setCurrentPattern in SpecSeq
MaxSeqLog == 7

\* most calls of switchMode and emergencyStop in one behaviour of SpecMotion
MaxModeCalls == 3

\* most commands the LineFollower sends to the drive unit in one behaviour
\* of SpecLF
MaxLFCmds == 2

\* the sonar task's iteration count, the constructor's timeOut
timeOut == 3

\* most measurements the sonar pushes in one behaviour of SpecSonar
MaxSonarPushes == 2

\* PerimeterStorage's capacity MAX_PERIMETER_WAYPOINTS (1000 in the source)
MAX_PERIMETER_WAYPOINTS == 4

\* PerimeterOffset's capacity MAX_OFFSET_WAYPOINTS, that of the perimeter in
\* the source (1000)
MAX_OFFSET_WAYPOINTS == MAX_PERIMETER_WAYPOINTS

\* the largest lap count handed to setPerimeterLaps (3 is the default)
MaxLaps == 2
\* the most passes of the LineFollower task that steer during one mowing run
MaxSteers == 1

\* Queue's template argument nofItems, the capacity (2..39 in the source)
nofItems == 3

(* Program constants *)

\* int and size_t are 16 bits wide, char is signed: the firmware is built for
\* the ATmega328P (Arduino Uno)
IntBits == 16

SCALE == 1024
WheelUpdateRate == 64
MOTOR_SPEED_MAX == 1023
MaxSpeed == 1000
Speed90 == 900
Speed80 == 800
Speed70 == 700
Speed60 == 600
Speed50 == 500
Speed40 == 400
Speed30 == 300
Speed20 == 200
Speed10 == 100
Speed00 == 0

\* FastTrigOptimized<128, 128, 128> and the template arguments of IntegerTrig
AtanTableSize == 128
SinCosTableSize == 128
OUTPUT_SCALE == 8192
ANGLE_MAX == 8192
ANGLE_360 == 3600
ANGLE_180 == 1800
ANGLE_90 == 900
ANGLE_270 == 2700
FIXED_ANGLE_MAX == 16384

\* enum MowingState
IDLE == 0
PERIMETER_LAPS == 1
MOWING_STRIPE == 2
EXECUTING_TURN == 3
COMPLETE == 4

\* enum MotionState
MOTION_IDLE == 0
MOTION_PATTERN == 1
MOTION_LINE_FOLLOWING == 2
MOTION_OBSTACLE_AVOID == 3
MOTION_EMERGENCY_STOP == 4

\* enum CurrentMotion
CONTINUOUS == 0
CHARGER_BACKOUT == 1
BWF_LEFT == 2
BWF_RIGHT == 3
CIRCLE == 4
TURN_LEFT == 5
SLOW_DOWN == 6
AVOID_OBSTACLE == 7
TASK_FOREVER == -1

-----------------------------------------------------------------------------
(* C integer arithmetic *)

Abs(a) == IF a < 0 THEN -a ELSE a

\* C division truncates toward zero
CDiv(a, b) ==
    LET q == Abs(a) \div Abs(b)
    IN  IF (a < 0) # (b < 0) THEN -q ELSE q

Pow2(n) == 2 ^ n

\* conversion of a signed value to the unsigned type of w bits
ToUnsigned(v, w) == v % Pow2(w)

\* conversion of a value to the signed type of w bits (two's complement)
ToSigned(v, w) ==
    LET u == v % Pow2(w)
    IN  IF u >= Pow2(w - 1) THEN u - Pow2(w) ELSE u

\* (a * 1000) / b of 64-bit operands that fit 32 bits, by long division so
\* that no intermediate value exceeds them
MulDiv1000(a, b) ==
    LET n == Abs(a)
        d == Abs(b)
        r1 == (n % d) * 10
        r2 == (r1 % d) * 10
        r3 == (r2 % d) * 10
        q == (n \div d) * 1000 + (r1 \div d) * 100 + (r2 \div d) * 10
                + (r3 \div d)
    IN  IF (a < 0) # (b < 0) THEN -q ELSE q

Min(a, b) == IF a < b THEN a ELSE b
Max(a, b) == IF a > b THEN a ELSE b

\* Arduino constrain(x, lo, hi)
Constrain(x, lo, hi) == IF x < lo THEN lo ELSE IF x > hi THEN hi ELSE x

\* v lies in the closed interval between a and b
Between(a, b, v) == Min(a, b) <= v /\ v <= Max(a, b)

-----------------------------------------------------------------------------
(* Motor: the last call a Wheel made on its Motor *)

\* cmd: the method called, arg: the speed passed to it, speed: the speed the
\* driver holds afterwards (move clamps to the motor range)
MotorReset == [cmd |-> "reset", arg |-> 0, speed |-> 0]
MotorStop == [cmd |-> "stop", arg |-> 0, speed |-> 0]
MotorMove(s) ==
    [cmd |-> "move", arg |-> s,
     speed |-> Constrain(s, -MOTOR_SPEED_MAX, MOTOR_SPEED_MAX)]

-----------------------------------------------------------------------------
(* Wheel *)

\* Wheel::Wheel
WheelInit ==
    [TargetSpeed |-> 0, CurSpeed |-> 0, cur_acc |-> 0, target_acc |-> 0,
     step_acc |-> 0, motor |-> MotorReset]

\* the rounding expression of EmitNewSpeed: (int)((cur_acc + SCALE/2) / SCALE)
RoundAcc(acc) == CDiv(acc + CDiv(SCALE, 2), SCALE)

\* Wheel::EmitNewSpeed.  The accumulators are 32-bit; speeds stay within the
\* motor range and a ramp has at least two steps, so |cur_acc + step_acc|
\* stays below 2^21 and the sum never wraps.
EmitNewSpeed(w) ==
    LET acc == w.cur_acc + w.step_acc
        newSpeed == RoundAcc(acc)
    IN  IF newSpeed # w.CurSpeed
        THEN [w EXCEPT !.cur_acc = acc, !.CurSpeed = newSpeed,
                       !.motor = MotorMove(newSpeed)]
        ELSE [w EXCEPT !.cur_acc = acc]

\* Wheel::EmitTargetSpeed
EmitTargetSpeed(w) ==
    [w EXCEPT !.CurSpeed = w.TargetSpeed,
              !.cur_acc = w.TargetSpeed * SCALE,
              !.target_acc = w.TargetSpeed * SCALE,
              !.step_acc = 0,
              !.motor = MotorMove(w.TargetSpeed)]

\* Wheel::setWheelSpeed
setWheelSpeed(w, Speed, iterations) ==
    LET target == Speed * SCALE
        cur == w.CurSpeed * SCALE
        iters == IF iterations <= 1 THEN 2 ELSE iterations
        step == CDiv(target - cur, iters)
        step2 == IF step = 0 /\ target # cur
                 THEN (IF target > cur THEN 1 ELSE -1)
                 ELSE step
    IN  [w EXCEPT !.TargetSpeed = Speed, !.target_acc = target,
                  !.cur_acc = cur, !.step_acc = step2]

\* Wheel::reset
WheelReset(w) == [WheelInit EXCEPT !.motor = MotorReset]

\* Wheel::stop
WheelStop(w) == [WheelInit EXCEPT !.motor = MotorStop]

-----------------------------------------------------------------------------
(* Scheduler library: the Task operations the components use.  A task is   *)
(* a record with the fields enabled, iterations (runs left, TASK_FOREVER   *)
(* for no limit), setIter (the count restart re-arms) and interval.        *)

TaskNew(interval, iterations) ==
    [enabled |-> FALSE, iterations |-> iterations, setIter |-> iterations,
     interval |-> interval, delay |-> interval]

\* Task::setIterations
TaskSetIterations(t, n) == [t EXCEPT !.iterations = n, !.setIter = n]

\* Task::setInterval
TaskSetInterval(t, ms) == [t EXCEPT !.interval = ms, !.delay = ms]

\* Task::enable, after the on-enable hook answered `accepted`: the first
\* tick is due at once
TaskEnabled(t, accepted) == [t EXCEPT !.enabled = accepted, !.delay = 0]

\* Task::restart re-arms the iteration count before enabling
TaskRearm(t) == [t EXCEPT !.iterations = t.setIter]

\* Task::restartDelayed / enableDelayed: one interval (or the given delay)
\* passes before the next tick
TaskDelayed(t, d) == [t EXCEPT !.delay = IF d = 0 THEN t.interval ELSE d]

\* Task::restart
TaskRestart(t) == TaskEnabled(TaskRearm(t), TRUE)

\* Task::restartDelayed
TaskRestartDelayed(t, d) == TaskDelayed(TaskEnabled(TaskRearm(t), TRUE), d)

\* a tick callback answered "do not continue": the task is stopped
TaskStopped(t) == [t EXCEPT !.enabled = FALSE]

\* the scheduler's pass over an enabled task: an exhausted iteration count
\* disables the task instead of ticking it
TaskExhausted(t) == t.enabled /\ t.iterations = 0
TaskDue(t) == t.enabled /\ t.iterations # 0

\* the scheduler counts a tick before it calls the tick callback
TaskCountTick(t) ==
    IF t.iterations > 0 THEN [t EXCEPT !.iterations = t.iterations - 1] ELSE t

-----------------------------------------------------------------------------
(* DriveUnit: a value du = [l, r, t] of both wheels and the task *)

DU == [l |-> leftWheel, r |-> rightWheel, t |-> driveTask]

\* DriveUnit::DriveUnit
DriveInit ==
    [l |-> WheelInit, r |-> WheelInit,
     t |-> TaskNew(WheelUpdateRate, TASK_FOREVER)]

\* int iterations = mSecToReachSpeed / WheelUpdateRate (int / unsigned int)
DurationToIterations(ms, bits) ==
    LET q == ToSigned(ToUnsigned(ms, bits) \div WheelUpdateRate, bits)
    IN  IF q <= 1 THEN 2 ELSE q

\* DriveUnit::Callback
DriveCallback(du) ==
    [du EXCEPT !.l = EmitNewSpeed(du.l), !.r = EmitNewSpeed(du.r)]

\* DriveUnit::OnEnable
DriveOnEnable(du) ==
    [du EXCEPT !.l = EmitNewSpeed(du.l), !.r = EmitNewSpeed(du.r)]

\* DriveUnit::OnDisable
DriveOnDisableNoSnap(du) == du
DriveOnDisable(du) ==
    [du EXCEPT !.l = EmitTargetSpeed(du.l), !.r = EmitTargetSpeed(du.r)]

\* Task::enable on the DriveUnit: the hook runs on every call
DriveEnable(du) ==
    LET h == DriveOnEnable(du)
    IN  [h EXCEPT !.t = TaskEnabled(h.t, TRUE)]

\* Task::disable on the DriveUnit: the hook runs if the task was enabled
DriveDisable(du) ==
    LET off == [du EXCEPT !.t.enabled = FALSE]
    IN  IF du.t.enabled THEN DriveOnDisable(off) ELSE off

\* DriveUnit::setTargetSpeed
setTargetSpeed(du, leftSpeed, rightSpeed, mSec, bits) ==
    LET iterations == DurationToIterations(mSec, bits)
        s == [du EXCEPT !.l = setWheelSpeed(du.l, leftSpeed, iterations),
                        !.r = setWheelSpeed(du.r, rightSpeed, iterations),
                        !.t = TaskSetIterations(du.t, iterations)]
    IN  DriveEnable(s)

\* DriveUnit::stopWheels
stopWheels(du) ==
    DriveDisable([du EXCEPT !.l = WheelStop(du.l), !.r = WheelStop(du.r)])

\* one pass of Scheduler::execute over the DriveUnit task
DrivePass(du) ==
    IF TaskExhausted(du.t) THEN DriveDisable(du)
    ELSE IF TaskDue(du.t)
         THEN DriveCallback([du EXCEPT !.t = TaskCountTick(du.t)])
         ELSE du

-----------------------------------------------------------------------------
(* SpecWheel: one Wheel driven through its public methods *)

\* speeds handed to a wheel
TargetSpeeds == {-1023, -1000, -1, 0, 1, 1000, 1023}

NoRamp == [active |-> FALSE, from |-> 0, n |-> 0, ticks |-> 0]

\* hook: the hook the last step ran; preL, preR: the speeds before that
\* step; ramping, fromL, fromR: a setTargetSpeed was made and no stopWheels
\* since, and the speeds the wheels had when it was made
NoHist ==
    [hook |-> "none", preL |-> 0, preR |-> 0, cmds |-> 0, ms |-> 0,
     ramping |-> FALSE, fromL |-> 0, fromR |-> 0]

InitWheels ==
    /\ leftWheel = DriveInit.l
    /\ rightWheel = DriveInit.r
    /\ driveTask = DriveInit.t
    /\ ramp = NoRamp
    /\ driveHist = NoHist

\* setWheelSpeed(t, n) on the wheel
WSet(t, n) ==
    /\ leftWheel' = setWheelSpeed(leftWheel, t, n)
    /\ ramp' = [active |-> TRUE, from |-> leftWheel.CurSpeed,
                n |-> n, ticks |-> 0]
    /\ UNCHANGED <<rightWheel, driveTask, driveHist>>

\* EmitNewSpeed() on the wheel, at most n times after a setWheelSpeed(t, n)
WEmit ==
    /\ ramp.active
    /\ ramp.ticks < ramp.n
    /\ leftWheel' = EmitNewSpeed(leftWheel)
    /\ ramp' = [ramp EXCEPT !.ticks = ramp.ticks + 1]
    /\ UNCHANGED <<rightWheel, driveTask, driveHist>>

\* EmitTargetSpeed() on the wheel
WEmitTarget ==
    /\ leftWheel' = EmitTargetSpeed(leftWheel)
    /\ ramp' = NoRamp
    /\ UNCHANGED <<rightWheel, driveTask, driveHist>>

\* stop() on the wheel
WStop ==
    /\ leftWheel' = WheelStop(leftWheel)
    /\ ramp' = NoRamp
    /\ UNCHANGED <<rightWheel, driveTask, driveHist>>

\* reset() on the wheel
WReset ==
    /\ leftWheel' = WheelReset(leftWheel)
    /\ ramp' = NoRamp
    /\ UNCHANGED <<rightWheel, driveTask, driveHist>>

-----------------------------------------------------------------------------
(* SpecDrive: the DriveUnit task, its callers and the scheduler *)

\* target speeds and ramp durations (ms) handed to DriveUnit::setTargetSpeed
DriveSpeeds == {-1000, 0, 500}
Durations == {10, 200}

\* ramp durations of either sign, around the multiples of WheelUpdateRate
\* and at the ends of int
AllDurations == {-32768, -640, -64, -1, 0, 10, 63, 64, 127, 128, 640, 32767}

SetDU(du) ==
    /\ leftWheel' = du.l
    /\ rightWheel' = du.r
    /\ driveTask' = du.t

\* the history of the step that took the DriveUnit from DU to du
HistOf(hook) ==
    [driveHist EXCEPT !.hook = hook, !.preL = leftWheel.CurSpeed,
                      !.preR = rightWheel.CurSpeed]

\* a caller's setTargetSpeed(l, r, ms)
DSetTarget(l, r, ms) ==
    /\ driveHist.cmds < MaxCmds
    /\ SetDU(setTargetSpeed(DU, l, r, ms, IntBits))
    /\ driveHist' = [HistOf("OnEnable") EXCEPT !.cmds = driveHist.cmds + 1,
                                               !.ms = ms,
                                               !.ramping = TRUE,
                                               !.fromL = leftWheel.CurSpeed,
                                               !.fromR = rightWheel.CurSpeed]
    /\ UNCHANGED ramp

\* the scheduler's pass over the task: a tick, or the disable that ends the
\* ramp once the iteration count is used up
DPass ==
    /\ driveTask.enabled
    /\ SetDU(DrivePass(DU))
    /\ driveHist' = HistOf(IF TaskExhausted(driveTask)
                               THEN "OnDisable" ELSE "Callback")
    /\ UNCHANGED ramp

\* a caller's disable() of the task
DDisable ==
    /\ SetDU(DriveDisable(DU))
    /\ driveHist' = IF driveTask.enabled THEN HistOf("OnDisable")
                    ELSE driveHist
    /\ UNCHANGED ramp

\* a caller's stopWheels()
DStopWheels ==
    /\ SetDU(stopWheels(DU))
    /\ driveHist' = [(IF driveTask.enabled THEN HistOf("OnDisable")
                      ELSE [driveHist EXCEPT !.hook = "none"])
                     EXCEPT !.ramping = FALSE]
    /\ UNCHANGED ramp

-----------------------------------------------------------------------------
(* Queue<Data, nofItems, _Properties> *)

Q == [head |-> qHead, count |-> qCount, data |-> qData, props |-> qProps]

\* Queue::Queue: head = 0, count = 0; the data array of a global is zeroed
QueueInit(props) ==
    [head |-> 0, count |-> 0, data |-> [i \in 0..(nofItems - 1) |-> 0],
     props |-> props]

\* an advancePtr that wraps one slot before the end of the array
advancePtrEarly(ptr) == IF ptr >= nofItems - 2 THEN 0 ELSE ptr + 1

\* Queue::advancePtr
advancePtr(ptr) == IF ptr >= nofItems - 1 THEN 0 ELSE ptr + 1

\* Queue::dataAvailable
dataAvailable(q) == q.count # 0

\* Queue::spaceAvailable
spaceAvailable(q) == (nofItems - q.count) # 0

\* Queue::canOverwrite
canOverwrite(q) == (q.props % 2) = 1

\* a pull that hands out the newest element instead of the oldest
pullNewest(q, out) ==
    IF ~dataAvailable(q) THEN [ok |-> FALSE, val |-> out, q |-> q]
    ELSE [ok |-> TRUE, val |-> q.data[q.head],
          q |-> [q EXCEPT !.count = q.count - 1]]

\* Queue::pull: [ok, val, q]; val is the caller's _data afterwards
pull(q, out) ==
    IF ~dataAvailable(q) THEN [ok |-> FALSE, val |-> out, q |-> q]
    ELSE LET cnt == q.count - 1
             t0 == ToSigned(q.head - cnt, 8)
             tail == IF t0 < 0 THEN ToSigned(t0 + nofItems, 8) ELSE t0
         IN  [ok |-> TRUE, val |-> q.data[tail],
              q |-> [q EXCEPT !.count = cnt]]

\* a push that counts the element it overwrites as a new one
pushCounting(q, v) ==
    LET Avail == spaceAvailable(q)
    IN  IF Avail \/ canOverwrite(q)
        THEN LET h == advancePtr(q.head)
             IN  [ok |-> TRUE,
                  q |-> [q EXCEPT !.head = h, !.data[h] = v,
                                  !.count = q.count + 1]]
        ELSE [ok |-> FALSE, q |-> q]

\* a push that overwrites whatever the overwrite bit says
pushAlways(q, v) ==
    LET h == advancePtr(q.head)
    IN  [ok |-> TRUE,
         q |-> [q EXCEPT !.head = h, !.data[h] = v,
                         !.count = IF spaceAvailable(q) THEN q.count + 1
                                   ELSE q.count]]

\* Queue::push: [ok, q]
push(q, v) ==
    LET Avail == spaceAvailable(q)
    IN  IF Avail \/ canOverwrite(q)
        THEN LET h == advancePtr(q.head)
             IN  [ok |-> TRUE,
                  q |-> [q EXCEPT !.head = h, !.data[h] = v,
                                  !.count = IF Avail THEN q.count + 1
                                            ELSE q.count]]
        ELSE [ok |-> FALSE, q |-> q]

-----------------------------------------------------------------------------
(* SpecQueue: a producer pushing and a consumer pulling *)

\* most pushes that succeed in SpecQueue: the ring wraps around
MaxPush == nofItems + 3

\* the last call on the queue, and out: every value a pull has handed out
NoOp ==
    [op |-> "none", ok |-> FALSE, val |-> 0, before |-> QueueInit(0),
     out |-> <<>>]

SetQ(q) ==
    /\ qHead' = q.head
    /\ qCount' = q.count
    /\ qData' = q.data
    /\ qProps' = q.props

InitQueue ==
    /\ qHead = 0
    /\ qCount = 0
    /\ qData = QueueInit(0).data
    /\ qPushed = <<>>
    /\ qPulled = <<>>
    /\ qLast = NoOp

\* the producer's push; the pushed values are numbered so that every one of
\* them is distinct
QPush ==
    /\ Len(qPushed) < MaxPush
    /\ LET v == Len(qPushed) + 1
           r == push(Q, v)
       IN  /\ SetQ(r.q)
           /\ qPushed' = IF r.ok THEN Append(qPushed, v) ELSE qPushed
           /\ qPulled' = IF r.ok THEN <<>> ELSE qPulled
           /\ qLast' = [op |-> "push", ok |-> r.ok, val |-> v, before |-> Q,
                        out |-> qLast.out]

\* the consumer's pull into a variable holding 0
QPull ==
    /\ LET r == pull(Q, 0)
       IN  /\ SetQ(r.q)
           /\ qPulled' = IF r.ok THEN Append(qPulled, r.val) ELSE qPulled
           /\ qLast' = [op |-> "pull", ok |-> r.ok, val |-> r.val,
                        before |-> Q,
                        out |-> IF r.ok THEN Append(qLast.out, r.val)
                                ELSE qLast.out]
    /\ UNCHANGED qPushed

-----------------------------------------------------------------------------
(* AllMovements: the pattern sequencer *)

Mv(l, r, ms) == [leftSpeed |-> l, rightSpeed |-> r, mSec |-> ms]

\* the { 0, 0, 0 } entry that ends every table
Sentinel == Mv(0, 0, 0)

Continous ==
    << Mv(Speed70, Speed70, 3001), Mv(Speed80, Speed80, 3001),
       Mv(Speed90, Speed90, 3001), Mv(Speed90, Speed90, 8001), Sentinel >>

ChargerBackout ==
    << Mv(-Speed20, -Speed20, 1002), Mv(Speed00, -Speed20, 402),
       Mv(Speed30, Speed00, 1002), Mv(Speed40, Speed40, 602),
       Mv(Speed90, Speed90, 802), Sentinel >>

BWFLeft ==
    << Mv(Speed40, Speed00, 403), Mv(Speed40, -Speed10, 203),
       Mv(Speed40, Speed10, 403), Mv(Speed40, Speed40, 603),
       Mv(Speed80, Speed80, 703), Sentinel >>

BWFRight ==
    << Mv(Speed00, Speed40, 404), Mv(-Speed10, -Speed40, 204),
       Mv(Speed10, Speed40, 404), Mv(Speed40, Speed40, 604),
       Mv(Speed80, Speed80, 704), Sentinel >>

Circle ==
    << Mv(Speed40, -Speed40, 605), Mv(-Speed10, -Speed40, 705),
       Mv(Speed70, Speed60, 805), Mv(Speed90, Speed90, 905), Sentinel >>

TurnLeft ==
    << Mv(Speed10, Speed60, 306), Mv(Speed00, Speed40, 1006),
       Mv(Speed40, Speed40, 406), Mv(Speed90, Speed90, 806), Sentinel >>

SlowDown ==
    << Mv(Speed30, Speed30, 507), Mv(Speed20, Speed20, 107),
       Mv(Speed20, Speed20, 3007), Sentinel >>

AvoidObstacle ==
    << Mv(Speed20, -Speed30, 308), Mv(Speed20, -Speed40, 408),
       Mv(Speed30, Speed30, 2008), Sentinel >>

TableNames ==
    {"Continous", "ChargerBackout", "BWFLeft", "BWFRight", "Circle",
     "TurnLeft", "SlowDown", "AvoidObstacle"}

TableOf(name) ==
    CASE name = "Continous" -> Continous
      [] name = "ChargerBackout" -> ChargerBackout
      [] name = "BWFLeft" -> BWFLeft
      [] name = "BWFRight" -> BWFRight
      [] name = "Circle" -> Circle
      [] name = "TurnLeft" -> TurnLeft
      [] name = "SlowDown" -> SlowDown
      [] name = "AvoidObstacle" -> AvoidObstacle

\* the switch of setCurrentPattern: the table a CurrentMotion value selects
PatternTable(cm) ==
    CASE cm = CONTINUOUS -> "Continous"
      [] cm = CHARGER_BACKOUT -> "ChargerBackout"
      [] cm = BWF_LEFT -> "BWFLeft"
      [] cm = BWF_RIGHT -> "BWFRight"
      [] cm = CIRCLE -> "Circle"
      [] cm = TURN_LEFT -> "TurnLeft"
      [] cm = SLOW_DOWN -> "SlowDown"
      [] cm = AVOID_OBSTACLE -> "AvoidObstacle"
      [] OTHER -> "Continous"

\* currMove is a pointer into a table, the null pointer it is initialised
\* with, or (after ++ on the null pointer) a pointer to no table at all
MovePtr(name, i) == [tab |-> name, idx |-> i]
NullMove == MovePtr("null", 0)
WildMove == MovePtr("wild", 0)
IsTablePtr(p) == p.tab \in TableNames

\* what a read through a pointer to no table may yield
GarbageMoves == {Sentinel, Mv(500, -1000, 10)}

\* the values *currMove may yield
Deref(p) == IF IsTablePtr(p) THEN {TableOf(p.tab)[p.idx]} ELSE GarbageMoves

\* a cursor that stays on its entry
NextMoveStay(p) == p

\* currMove++
NextMove(p) == IF IsTablePtr(p) THEN MovePtr(p.tab, p.idx + 1) ELSE WildMove

SQ == [t |-> seqTask, currMove |-> currMove, CurrMotion |-> CurrMotion]

\* AllMovements::AllMovements
AllMovementsInit ==
    [t |-> TaskSetIterations(TaskNew(1, TASK_FOREVER), 1),
     currMove |-> NullMove, CurrMotion |-> CONTINUOUS]

\* setMainTargetSpeed of main.cpp, the speed callback of the sequencer
setMainTargetSpeed(du, m) ==
    setTargetSpeed(du, m.leftSpeed, m.rightSpeed, m.mSec, IntBits)

\* a callback that starts its own table again at the sentinel
SeqCallbackRepeat(sq, du, m0) ==
    LET p == IF m0.mSec = 0 /\ IsTablePtr(sq.currMove)
             THEN MovePtr(sq.currMove.tab, 1) ELSE sq.currMove
        m == IF m0.mSec = 0 /\ IsTablePtr(sq.currMove)
             THEN TableOf(sq.currMove.tab)[1] ELSE m0
    IN  [sq |-> [sq EXCEPT
                   !.currMove = NextMove(p),
                   !.t = TaskRestartDelayed(TaskSetInterval(sq.t, m.mSec), 0)],
         du |-> setMainTargetSpeed(du, m),
         delivered |-> m]

\* AllMovements::Callback, m0 being the entry read through currMove:
\* [sq, du, delivered], delivered being the entry the speed callback got
SeqCallback(sq, du, m0) ==
    LET p == IF m0.mSec = 0 THEN MovePtr("Continous", 1) ELSE sq.currMove
        m == IF m0.mSec = 0 THEN Continous[1] ELSE m0
    IN  [sq |-> [sq EXCEPT
                   !.currMove = NextMove(p),
                   !.t = TaskRestartDelayed(TaskSetInterval(sq.t, m.mSec), 0)],
         du |-> setMainTargetSpeed(du, m),
         delivered |-> m]

\* AllMovements::setCurrentPattern
setCurrentPattern(sq, cm) ==
    [sq EXCEPT !.CurrMotion = cm,
               !.currMove = MovePtr(PatternTable(cm), 1),
               !.t = TaskRestart(sq.t)]

-----------------------------------------------------------------------------
(* SpecSeq: the sequencer, its callers and the scheduler *)

\* values passed to setCurrentPattern: the enumerators and one value that is
\* none of them
Selectors == CONTINUOUS..(AVOID_OBSTACLE + 1)

NoLog == [pat |-> "none", steps |-> <<>>, sets |-> 0, op |-> "none"]

SetSQ(sq) ==
    /\ seqTask' = sq.t
    /\ currMove' = sq.currMove
    /\ CurrMotion' = sq.CurrMotion

InitSeq ==
    /\ seqTask = AllMovementsInit.t
    /\ currMove = AllMovementsInit.currMove
    /\ CurrMotion = AllMovementsInit.CurrMotion
    /\ seqLog = NoLog

\* a caller's setCurrentPattern(cm)
SeqSetPattern(cm) ==
    /\ seqLog.sets < MaxSets
    /\ SetSQ(setCurrentPattern(SQ, cm))
    /\ seqLog' = [pat |-> PatternTable(cm), steps |-> <<>>,
                  sets |-> seqLog.sets + 1, op |-> "set"]
    /\ UNCHANGED wheelVars

\* the scheduler's pass over the sequencer task once its delay has elapsed
SeqPass ==
    /\ TaskDue(seqTask)
    /\ Len(seqLog.steps) < MaxSeqLog
    /\ \E m0 \in Deref(currMove) :
          LET r == SeqCallback([SQ EXCEPT !.t = TaskCountTick(seqTask)],
                               DU, m0)
          IN  /\ SetSQ(r.sq)
              /\ SetDU(r.du)
              /\ seqLog' = [seqLog EXCEPT
                              !.steps = Append(seqLog.steps, r.delivered),
                              !.op = "tick"]
    /\ driveHist' = HistOf("OnEnable")
    /\ UNCHANGED ramp

\* a caller's enable() of the sequencer task (PatternController::start)
SeqEnable ==
    /\ ~seqTask.enabled
    /\ seqTask' = TaskEnabled(seqTask, TRUE)
    /\ seqLog' = [seqLog EXCEPT !.op = "enable"]
    /\ UNCHANGED <<currMove, CurrMotion, wheelVars>>

\* a caller's disable() of the sequencer task (PatternController::stop)
SeqDisable ==
    /\ seqTask.enabled
    /\ seqTask' = [seqTask EXCEPT !.enabled = FALSE]
    /\ seqLog' = [seqLog EXCEPT !.op = "disable"]
    /\ UNCHANGED <<currMove, CurrMotion, wheelVars>>

-----------------------------------------------------------------------------
(* FastTrigOptimized<128, 128, 128> and IntegerTrigWrapper: integer atan2 *)

\* v >> k on a signed value: the arithmetic shift floors
Shr(v, k) == v \div Pow2(k)

\* the CORDIC loop of generate_atan_quarter_table from step k on.  angle is
\* a uint32_t that only takes additions and subtractions before it is cast
\* to uint16_t, so it is kept modulo 2^16.
RECURSIVE Cordic(_, _, _, _, _)
Cordic(x, y, target_y, angle, k) ==
    IF k = 16 THEN angle
    ELSE IF y < target_y
         THEN Cordic(x - Shr(y, k), y + Shr(x, k), target_y,
                     (angle + Shr(2048, k)) % Pow2(16), k + 1)
         ELSE Cordic(x + Shr(y, k), y - Shr(x, k), target_y,
                     (angle - Shr(2048, k)) % Pow2(16), k + 1)

\* generate_atan_quarter_table: i * 16384 is computed in size_t
atan_table ==
    [i \in 0..(AtanTableSize - 1) |->
        Cordic(16384, 0, ToUnsigned(i * 16384, IntBits) \div AtanTableSize,
               0, 0)]

\* log2 of the table size
ATAN_TABLE_BITS == CHOOSE b \in 0..12 : Pow2(b) = AtanTableSize

\* the interpolated table value for the ratio small/big
AtanLookup(small, big) ==
    LET ratio_full == (small * Pow2(ATAN_TABLE_BITS + 8)) \div big
        index == Shr(ratio_full, 8) % AtanTableSize
        fraction == ratio_full % 256
        y0 == atan_table[index]
        y1 == atan_table[(index + 1) % AtanTableSize]
    IN  ToUnsigned(y0 + Shr((y1 - y0) * fraction, 8), 16)

\* FastTrigOptimized::atan2 on int16_t operands, a uint16_t
FixedAtan2(y, x) ==
    IF x = 0
    THEN (IF y > 0 THEN Shr(ANGLE_MAX, 1)
          ELSE IF y < 0 THEN Shr(ANGLE_MAX, 1) * 3 ELSE 0)
    ELSE LET abs_x == Abs(x)
             abs_y == Abs(y)
             quadrant_adjust == (IF x < 0 THEN 2 ELSE 0)
                                + (IF y < 0 THEN 1 ELSE 0)
             angle == IF abs_x >= abs_y
                      THEN AtanLookup(abs_y, abs_x)
                      ELSE ToUnsigned(Shr(ANGLE_MAX, 1)
                                      - AtanLookup(abs_x, abs_y), 16)
             quadrant_offset ==
                 <<0, ToUnsigned(2 * ANGLE_MAX, 16), ANGLE_MAX, ANGLE_MAX>>
             angle_sign == <<1, -1, -1, 1>>
         IN  ToUnsigned(quadrant_offset[quadrant_adjust + 1]
                        + angle * angle_sign[quadrant_adjust + 1], 16)

\* IntegerTrigWrapper::fixed_to_mower_mul
fixed_to_mower_mul == CDiv(ANGLE_360 * 1024, FIXED_ANGLE_MAX)

\* IntegerTrigWrapper::fixedToMowerAngle
fixedToMowerAngle(fixedAngle) ==
    ToSigned(Shr(fixedAngle * fixed_to_mower_mul, 10), 16)

\* IntegerTrigWrapper::atan2_int
RECURSIVE atan2_int(_, _)
atan2_int(y, x) ==
    IF x = 0 /\ y = 0 THEN 0
    ELSE IF y > 32767 \/ y < -32767 \/ x > 32767 \/ x < -32767
         THEN atan2_int(Shr(y, 1), Shr(x, 1))
         ELSE fixedToMowerAngle(FixedAtan2(y, x))

\* IntegerTrigWrapper::normalizeAngle
normalizeAngle(angle) == angle % ANGLE_360

\* the two while loops of angleDifference
RECURSIVE WrapHalfTurn(_)
WrapHalfTurn(diff) ==
    IF diff > ANGLE_180 THEN WrapHalfTurn(diff - ANGLE_360)
    ELSE IF diff < -ANGLE_180 THEN WrapHalfTurn(diff + ANGLE_360)
    ELSE diff

\* IntegerTrigWrapper::angleDifference
angleDifference(target, current) == ToSigned(WrapHalfTurn(target - current), 16)

-----------------------------------------------------------------------------
(* Sine and cosine: FastTrigOptimized<128, 128, 128>::sin and ::cos, and   *)
(* the wrappers of src/src/IntegerMath.h that ParallelStripeMower.h uses   *)

\* FastTrigOptimized::sin_internal
sin_internal(angle) ==
    LET term == Shr(angle * (16384 - angle), 14)
        numerator == term * 4
        denominator == 16487 - term
    IN  ToSigned(CDiv(numerator * OUTPUT_SCALE * 2, denominator), 16)

\* generate_sine_quarter_table: i * 16384 is computed in size_t
sine_quarter_table ==
    [i \in 0..(SinCosTableSize - 1) |->
        sin_internal(ToUnsigned(i * 16384, IntBits) \div (SinCosTableSize - 1))]

\* FastTrigOptimized::RECIPROCAL_QUADRANT
RECIPROCAL_QUADRANT == (SinCosTableSize * 65536) \div 4096

\* FastTrigOptimized::sin
TrigSin(a) ==
    LET angle == ToUnsigned(a, 16) % 16384
        quadrant == Shr(angle, 12)
        position == IF quadrant % 2 = 1 THEN 4096 - (angle % 4096)
                    ELSE angle % 4096
        index_scaled == position * RECIPROCAL_QUADRANT
        fraction == Shr(index_scaled, 8) % 256
        index == Min(Shr(index_scaled, 16), SinCosTableSize - 1)
        y0 == sine_quarter_table[index]
        y1 == sine_quarter_table[(index + 1) % SinCosTableSize]
        value == ToSigned(y0 + Shr((y1 - y0) * fraction, 8), 16)
    IN  IF Shr(quadrant, 1) = 1 THEN ToSigned(-value, 16) ELSE value

\* FastTrigOptimized::cos
TrigCos(a) == TrigSin(ToUnsigned(a + Shr(ANGLE_MAX, 2), 16))

\* mowerToFixedAngle of src/src/IntegerMath.h
mowerToFixedAngle(angle) ==
    ToUnsigned(CDiv((angle % ANGLE_360) * 4551, 1000), 16)

\* fixedToMowerScale of src/src/IntegerMath.h
fixedToMowerScale(fixedValue) == ToSigned(Shr(fixedValue * 125, 10), 16)

\* sin_int and sin_lookup of src/src/IntegerMath.h
sin_lookup(angle) == fixedToMowerScale(TrigSin(mowerToFixedAngle(angle)))

\* cos_int and cos_lookup of src/src/IntegerMath.h
cos_lookup(angle) == fixedToMowerScale(TrigCos(mowerToFixedAngle(angle)))

\* IntegerTrigWrapper::mowerToFixedAngle of IntegerMathGeneric.h
mowerToFixedAngleGeneric(angle) ==
    ToUnsigned(Shr(normalizeAngle(angle) * 4663, 10), 16)

\* IntegerTrigWrapper::sin_int; its fixedToMowerScale multiplies by
\* 1000 * 1024 / 8192 = 125 and shifts by 10 as the one above
sin_int(angle) == fixedToMowerScale(TrigSin(mowerToFixedAngleGeneric(angle)))

\* IntegerTrigWrapper::cos_int
cos_int(angle) == fixedToMowerScale(TrigCos(mowerToFixedAngleGeneric(angle)))

-----------------------------------------------------------------------------
(* Point2D_int *)

Pt(x, y) == [x |-> x, y |-> y]

\* the Newton iteration of isqrt64
RECURSIVE Newton(_, _, _)
Newton(n, x, y) == IF y < x THEN Newton(n, y, (y + CDiv(n, y)) \div 2) ELSE x

\* Point2D_int::isqrt64
isqrt64(n) ==
    IF n <= 0 THEN 0 ELSE IF n = 1 THEN 1 ELSE Newton(n, n, (n + 1) \div 2)

PtSub(a, b) == Pt(a.x - b.x, a.y - b.y)
dot(a, b) == a.x * b.x + a.y * b.y
cross(a, b) == a.x * b.y - a.y * b.x
magnitude(a) == isqrt64(a.x * a.x + a.y * a.y)
distanceTo(a, b) == magnitude(PtSub(a, b))

\* Point2D_int::normalized
normalized(a) ==
    LET mag == magnitude(a)
    IN  IF mag > 10 THEN Pt(CDiv(a.x * 1000, mag), CDiv(a.y * 1000, mag))
        ELSE Pt(0, 0)

-----------------------------------------------------------------------------
(* GPSInterface and IMUInterface, as far as the LineFollower reads them *)

\* GPSInterface::GPSInterface
GPSInit == [pos |-> Pt(0, 0), fix |-> FALSE]

\* GPSInterface::setPositionMM
setPositionMM(g, p) == [pos |-> p, fix |-> TRUE]

\* IMUInterface::IMUInterface
IMUInit == [heading |-> 0, initialized |-> FALSE]

\* IMUInterface::begin, the heading being left alone
IMUBegin(i) == [i EXCEPT !.initialized = TRUE]

\* IMUInterface::setHeading
setHeading(i, h) == [i EXCEPT !.heading = ToSigned(h, 16) % ANGLE_360]

\* IMUInterface::resetHeading
resetHeading(i) == [i EXCEPT !.heading = 0]

\* the yaw rate of update() in tenths of a degree per second
GyroRate(gyroZ, gyroBiasZ) ==
    ToSigned(CDiv((gyroZ - gyroBiasZ) * 10, 131), 16)

\* headingChange of update(): the product of the int32_t rate and the
\* uint32_t time is unsigned, so a negative product is taken modulo 2^32
\* (4294967 * 1000 + 296) before the division
HeadingChange(rate, deltaTimeMs) ==
    LET Divided(product) ==
            IF product >= 0 THEN product \div 1000
            ELSE 4294967 + ((296 + product) \div 1000)
    IN  ToSigned(Divided(rate * deltaTimeMs), 16)

\* the values a build can leave in _currentHeading after += change: the
\* sum, or where the sum overflows int, the wrapped sum or either end of the
\* range
HeadingSums(heading, change) ==
    LET sum == heading + change
    IN  IF sum = ToSigned(sum, IntBits) THEN {ToSigned(sum, 16)}
        ELSE {ToSigned(sum, 16), -32768, 32767}

RECURSIVE HeadingBelow360(_)
\* while (_currentHeading >= ANGLE_360) _currentHeading -= ANGLE_360
HeadingBelow360(h) ==
    IF h >= ANGLE_360 THEN HeadingBelow360(h - ANGLE_360) ELSE h

RECURSIVE HeadingFrom0(_)
\* while (_currentHeading < 0) _currentHeading += ANGLE_360
HeadingFrom0(h) == IF h < 0 THEN HeadingFrom0(h + ANGLE_360) ELSE h

\* an update() that only brings the heading down below 360 degrees
IMUupdateDownOnly(i, gyroZ, gyroBiasZ, deltaTimeMs, sum) ==
    IF ~i.initialized THEN i
    ELSE [i EXCEPT !.heading = HeadingBelow360(sum)]

\* IMUInterface::update with the reading gyroZ, deltaTimeMs after the
\* previous update; sum is the value of HeadingSums the build leaves
IMUupdate(i, gyroZ, gyroBiasZ, deltaTimeMs, sum) ==
    IF ~i.initialized THEN i
    ELSE [i EXCEPT !.heading = HeadingFrom0(HeadingBelow360(sum))]

-----------------------------------------------------------------------------
(* LineFollower *)

\* LineFollower::LineFollower; the object is a global, so the members the
\* constructor does not mention start out zeroed
LineFollowerInit ==
    [lineSet |-> FALSE, startPoint |-> Pt(0, 0), endPoint |-> Pt(0, 0),
     currentPosition |-> Pt(0, 0), currentHeading |-> 0,
     K_crossTrack |-> 1000, K_heading |-> 2000,
     lookaheadDistance |-> 1000, baseSpeed |-> Speed50,
     completionThreshold |-> 300, lineComplete |-> FALSE]

LineTaskInit == TaskNew(200, TASK_FOREVER)

\* LineFollower::setLineMM
setLineMM(f, start, end) ==
    [f EXCEPT !.startPoint = start, !.endPoint = end, !.lineSet = TRUE,
              !.lineComplete = FALSE]

\* LineFollower::setCrossTrackGain
setCrossTrackGain(f, gain) == [f EXCEPT !.K_crossTrack = gain]

\* LineFollower::setHeadingGain
setHeadingGain(f, gain) == [f EXCEPT !.K_heading = gain]

\* LineFollower::setBaseSpeed
setBaseSpeed(f, speed) == [f EXCEPT !.baseSpeed = speed]

\* LineFollower::reset
LineReset(f) == [f EXCEPT !.lineComplete = FALSE]

\* LineFollower::updateSensors
updateSensors(f, g, i) ==
    [f EXCEPT !.currentPosition = IF g.fix THEN g.pos ELSE @,
              !.currentHeading = IF i.initialized THEN i.heading ELSE @]

\* LineFollower::calculateBearing
calculateBearing(from, to) ==
    LET dx == to.x - from.x
        dy == to.y - from.y
    IN  normalizeAngle(ToSigned(900 - atan2_int(dy, dx), 16))

\* LineFollower::calculateNearestPointOnLine
calculateNearestPointOnLine(f) ==
    LET lineVector == PtSub(f.endPoint, f.startPoint)
        posVector == PtSub(f.currentPosition, f.startPoint)
        lineLengthSquared == dot(lineVector, lineVector)
        t == MulDiv1000(dot(posVector, lineVector), lineLengthSquared)
        t_scaled == Constrain(t, 0, 1000)
    IN  IF lineLengthSquared < 100 THEN f.startPoint
        ELSE Pt(f.startPoint.x + CDiv(lineVector.x * t_scaled, 1000),
                f.startPoint.y + CDiv(lineVector.y * t_scaled, 1000))

\* LineFollower::calculateCrossTrackError
calculateCrossTrackError(f) ==
    LET lineVector == PtSub(f.endPoint, f.startPoint)
        posVector == PtSub(f.currentPosition, f.startPoint)
        crossProduct == cross(posVector, lineVector)
        lineMagnitude == magnitude(lineVector)
    IN  IF ~f.lineSet THEN 0
        ELSE IF lineMagnitude < 10 THEN 0
        ELSE CDiv(crossProduct, lineMagnitude)

\* LineFollower::calculateLookAheadPoint
calculateLookAheadPoint(f) ==
    LET nearestPoint == calculateNearestPointOnLine(f)
        lineDirection == normalized(PtSub(f.endPoint, f.startPoint))
        lookAheadPoint ==
            Pt(nearestPoint.x
                  + CDiv(lineDirection.x * f.lookaheadDistance, 1000),
               nearestPoint.y
                  + CDiv(lineDirection.y * f.lookaheadDistance, 1000))
        distToEnd == distanceTo(lookAheadPoint, f.endPoint)
        nearestToEnd == distanceTo(nearestPoint, f.endPoint)
    IN  IF distToEnd > nearestToEnd THEN f.endPoint ELSE lookAheadPoint

\* LineFollower::calculateHeadingError
calculateHeadingError(f) ==
    IF ~f.lineSet THEN 0
    ELSE angleDifference(
             calculateBearing(f.currentPosition, calculateLookAheadPoint(f)),
             f.currentHeading)

\* LineFollower::calculateDistanceToEnd
calculateDistanceToEnd(f) == distanceTo(f.currentPosition, f.endPoint)

\* an on-enable hook that leaves the completion flag as it finds it
LineOnEnableKeepFlag(f, g, i) ==
    IF ~f.lineSet THEN [accept |-> FALSE, f |-> f]
    ELSE [accept |-> TRUE, f |-> updateSensors(f, g, i)]

\* an on-enable hook that accepts whether or not a line is set
LineOnEnableAlways(f, g, i) ==
    [accept |-> TRUE,
     f |-> updateSensors([f EXCEPT !.lineComplete = FALSE], g, i)]

\* LineFollower::OnEnable: [accept, f]
LineOnEnable(f, g, i) ==
    IF ~f.lineSet THEN [accept |-> FALSE, f |-> f]
    ELSE [accept |-> TRUE,
          f |-> updateSensors([f EXCEPT !.lineComplete = FALSE], g, i)]

\* LineFollower::OnDisable
LineOnDisable(du) == setTargetSpeed(du, 0, 0, 200, IntBits)

\* a completion branch that latches but leaves the drive unit alone
LineCompleteNoStop(f, du) ==
    [cont |-> FALSE, steer |-> FALSE, left |-> 0, right |-> 0,
     f |-> [f EXCEPT !.lineComplete = TRUE], du |-> du]

\* the completion branch of LineFollower::Callback
LineComplete(f, du) ==
    [cont |-> FALSE, steer |-> FALSE, left |-> 0, right |-> 0,
     f |-> [f EXCEPT !.lineComplete = TRUE],
     du |-> setTargetSpeed(du, 0, 0, 200, IntBits)]

\* a steering branch that hands base speed -/+ correction to the drive unit
\* as it is
LineSteerUnclamped(f, du, interval) ==
    LET crossTrackError == calculateCrossTrackError(f)
        headingError == calculateHeadingError(f)
        cteContribution == CDiv(f.K_crossTrack * crossTrackError, 1000)
        headingContribution == CDiv(f.K_heading * headingError, 1000)
        maxCorrection == CDiv(MaxSpeed, 2)
        Command(leftSpeed, rightSpeed) ==
            [cont |-> TRUE, steer |-> TRUE, left |-> leftSpeed,
             right |-> rightSpeed, f |-> f,
             du |-> setTargetSpeed(du, leftSpeed, rightSpeed, interval,
                                   IntBits)]
        Steer(steeringCorrection) ==
            Command(
              ToSigned(f.baseSpeed - ToSigned(steeringCorrection, 16), 16),
              ToSigned(f.baseSpeed + ToSigned(steeringCorrection, 16), 16))
    IN  Steer(Constrain(cteContribution + headingContribution,
                        -maxCorrection, maxCorrection))

\* the steering branch of LineFollower::Callback
LineSteer(f, du, interval) ==
    LET crossTrackError == calculateCrossTrackError(f)
        headingError == calculateHeadingError(f)
        cteContribution == CDiv(f.K_crossTrack * crossTrackError, 1000)
        headingContribution == CDiv(f.K_heading * headingError, 1000)
        maxCorrection == CDiv(MaxSpeed, 2)
        Command(leftSpeed, rightSpeed) ==
            [cont |-> TRUE, steer |-> TRUE, left |-> leftSpeed,
             right |-> rightSpeed, f |-> f,
             du |-> setTargetSpeed(du, leftSpeed, rightSpeed, interval,
                                   IntBits)]
        Steer(steeringCorrection) ==
            Command(
              Constrain(ToSigned(f.baseSpeed
                                   - ToSigned(steeringCorrection, 16), 16),
                        -MaxSpeed, MaxSpeed),
              Constrain(ToSigned(f.baseSpeed
                                   + ToSigned(steeringCorrection, 16), 16),
                        -MaxSpeed, MaxSpeed))
    IN  Steer(Constrain(cteContribution + headingContribution,
                        -maxCorrection, maxCorrection))

\* LineFollower::Callback: [cont, f, du]; steer, left and right tell whether
\* a steering command went to the drive unit and which one
LineCallback(f, du, g, i, interval) ==
    IF ~f.lineSet
    THEN [cont |-> FALSE, steer |-> FALSE, left |-> 0, right |-> 0,
          f |-> f, du |-> du]
    ELSE LET f2 == updateSensors(f, g, i)
         IN  IF calculateDistanceToEnd(f2) < f2.completionThreshold
             THEN LineComplete(f2, du)
             ELSE LineSteer(f2, du, interval)

\* Task::enable on the LineFollower: [t, f]
LineEnable(t, f, g, i) ==
    LET r == LineOnEnable(f, g, i)
    IN  [t |-> TaskEnabled(t, r.accept), f |-> r.f]

\* Task::disable on the LineFollower: [t, du]
LineDisable(t, du) ==
    [t |-> [t EXCEPT !.enabled = FALSE],
     du |-> IF t.enabled THEN LineOnDisable(du) ELSE du]

\* one pass of the scheduler over the due LineFollower task: a tick callback
\* that answers "do not continue" stops the task; hook tells whether the
\* on-disable hook runs on that stop
LinePass(t, f, du, g, i, hook) ==
    LET Ticked(t2, r) ==
            IF r.cont
            THEN [t |-> TaskDelayed(t2, 0), f |-> r.f, du |-> r.du, r |-> r]
            ELSE [t |-> TaskStopped(t2), f |-> r.f,
                  du |-> IF hook THEN LineOnDisable(r.du) ELSE r.du,
                  r |-> r]
    IN  Ticked(TaskCountTick(t), LineCallback(f, du, g, i, t.interval))

-----------------------------------------------------------------------------
(* SpecLF: the LineFollower, its sensors, its callers and the scheduler *)

North == <<Pt(0, 0), Pt(0, 2000)>>
East == <<Pt(0, 0), Pt(2000, 0)>>

\* lines handed to setLineMM
Lines == {North, East}

\* positions the GPS reports
Positions == {Pt(-500, 1000), Pt(-10, 1000), Pt(1000, 500), Pt(100, 1900)}

\* headings the IMU reports
Headings == {0, 900}

NoLFLog ==
    [op |-> "none", cmds |-> 0, steer |-> FALSE, left |-> 0, right |-> 0]

InitLF ==
    /\ lfTask = LineTaskInit
    /\ lf = LineFollowerInit
    /\ gps = GPSInit
    /\ imu = IMUInit
    /\ lfLog = NoLFLog

\* a caller's setLineMM(start, end)
LFSetLine(l) ==
    /\ lf' = setLineMM(lf, l[1], l[2])
    /\ lfLog' = [lfLog EXCEPT !.op = "setLine"]
    /\ UNCHANGED <<lfTask, gps, imu, wheelVars>>

\* the GPS gets a fix at position p
GpsFix(p) ==
    /\ gps' = setPositionMM(gps, p)
    /\ lfLog' = [lfLog EXCEPT !.op = "sensor"]
    /\ UNCHANGED <<lfTask, lf, imu, wheelVars>>

\* the IMU is started and reports heading h
ImuHeading(h) ==
    /\ imu' = setHeading(IMUBegin(imu), h)
    /\ lfLog' = [lfLog EXCEPT !.op = "sensor"]
    /\ UNCHANGED <<lfTask, lf, gps, wheelVars>>

\* a caller's enable() of the LineFollower task
LFEnable ==
    /\ LET r == LineEnable(lfTask, lf, gps, imu)
       IN  /\ lfTask' = r.t
           /\ lf' = r.f
    /\ lfLog' = [lfLog EXCEPT !.op = "enable"]
    /\ UNCHANGED <<gps, imu, wheelVars>>

\* a caller's disable() of the enabled LineFollower task
LFDisable ==
    /\ lfTask.enabled
    /\ lfLog.cmds < MaxLFCmds
    /\ LET r == LineDisable(lfTask, DU)
       IN  /\ lfTask' = r.t
           /\ SetDU(r.du)
    /\ lfLog' = [lfLog EXCEPT !.op = "disable", !.cmds = lfLog.cmds + 1]
    /\ driveHist' = HistOf("OnEnable")
    /\ UNCHANGED <<lf, gps, imu, ramp>>

\* a caller's reset()
LFReset ==
    /\ lf.lineComplete
    /\ lf' = LineReset(lf)
    /\ lfLog' = [lfLog EXCEPT !.op = "reset"]
    /\ UNCHANGED <<lfTask, gps, imu, wheelVars>>

\* the scheduler's pass over the LineFollower task once its delay has elapsed
LFPassUpTo(most) ==
    /\ TaskDue(lfTask)
    /\ lfLog.cmds < most
    /\ \E hook \in BOOLEAN :
          \E u \in {LinePass(lfTask, lf, DU, gps, imu, hook)} :
              /\ lfTask' = u.t
              /\ lf' = u.f
              /\ SetDU(u.du)
              /\ lfLog' = [op |-> "tick", cmds |-> lfLog.cmds + 1,
                           steer |-> u.r.steer, left |-> u.r.left,
                           right |-> u.r.right]
    /\ driveHist' = HistOf("OnEnable")
    /\ UNCHANGED <<gps, imu, ramp>>

LFPass == LFPassUpTo(MaxLFCmds)

-----------------------------------------------------------------------------
(* SpecSteer: the LineFollower with callers that tune its gains and its    *)
(* base speed                                                              *)

\* gains handed to setCrossTrackGain and setHeadingGain: the defaults, none,
\* and the ends of int16_t
GainPairs == {<<1000, 2000>>, <<0, 0>>, <<32767, 32767>>, <<-32768, 1000>>}

\* base speeds handed to setBaseSpeed: the ends of the logical range
BaseSpeeds == {-MaxSpeed, 0, MaxSpeed}

\* the callers tune the LineFollower before its first tick
Tuning == lfLog.cmds = 0

\* a caller's setCrossTrackGain(k[1]) and setHeadingGain(k[2])
LFSetGains(k) ==
    /\ Tuning
    /\ lf' = setHeadingGain(setCrossTrackGain(lf, k[1]), k[2])
    /\ lfLog' = [lfLog EXCEPT !.op = "setGains"]
    /\ UNCHANGED <<lfTask, gps, imu, wheelVars>>

\* a caller's setBaseSpeed(s)
LFSetBaseSpeed(s) ==
    /\ Tuning
    /\ lf' = setBaseSpeed(lf, s)
    /\ lfLog' = [lfLog EXCEPT !.op = "setBaseSpeed"]
    /\ UNCHANGED <<lfTask, gps, imu, wheelVars>>

-----------------------------------------------------------------------------
(* MotionManager with its PatternController and LineFollowController.  The *)
(* value w holds the manager, both controllers, the components they wrap   *)
(* and, in hist, the start() and stop() calls made on the controllers;     *)
(* hist.halted tells that the last call on the manager was emergencyStop() *)
(* or switchMode(MOTION_IDLE).                                             *)

Controllers == {"pattern", "line"}

\* PatternController::PatternController, LineFollowController's likewise
ControllerInit == [isActive |-> FALSE, state |-> MOTION_IDLE]

NoCalls ==
    [op |-> "none", prev |-> "none", last |-> "none",
     started |-> [c \in Controllers |-> FALSE],
     stops |-> [c \in Controllers |-> 0],
     cleanStarts |-> TRUE, halted |-> FALSE]

W ==
    [active |-> mmActive, state |-> mmState, ctl |-> ctl,
     seqT |-> seqTask, lfT |-> lfTask, f |-> lf, du |-> DU,
     g |-> gps, i |-> imu, hist |-> mmHist]

\* the record of a start() on controller c: it is clean if no controller
\* is started and the controller started before it, if any, was stopped
\* exactly once since
StartCalled(h, c) ==
    [h EXCEPT !.started[c] = TRUE, !.stops[c] = 0, !.last = c,
              !.cleanStarts =
                  /\ h.cleanStarts
                  /\ \A d \in Controllers : ~h.started[d]
                  /\ h.last # "none" => h.stops[h.last] = 1]

\* the record of a stop() on controller c
StopCalled(h, c) ==
    [h EXCEPT !.started[c] = FALSE, !.stops[c] = h.stops[c] + 1]

\* PatternController::start
PatternStart(w) ==
    [w EXCEPT !.seqT = TaskEnabled(w.seqT, TRUE),
              !.ctl.pattern = [isActive |-> TRUE, state |-> MOTION_PATTERN],
              !.hist = StartCalled(w.hist, "pattern")]

\* PatternController::stop
PatternStop(w) ==
    [w EXCEPT !.seqT.enabled = FALSE,
              !.ctl.pattern = [isActive |-> FALSE, state |-> MOTION_IDLE],
              !.hist = StopCalled(w.hist, "pattern")]

\* LineFollowController::start
LineFollowStart(w) ==
    LET r == LineEnable(w.lfT, w.f, w.g, w.i)
    IN  [w EXCEPT !.lfT = r.t, !.f = r.f,
                  !.ctl.line = [isActive |-> TRUE,
                                state |-> MOTION_LINE_FOLLOWING],
                  !.hist = StartCalled(w.hist, "line")]

\* LineFollowController::stop
LineFollowStop(w) ==
    LET r == LineDisable(w.lfT, w.du)
    IN  [w EXCEPT !.lfT = r.t, !.du = r.du,
                  !.ctl.line = [isActive |-> FALSE, state |-> MOTION_IDLE],
                  !.hist = StopCalled(w.hist, "line")]

\* _activeController->start() and ->stop()
CtlStart(w, c) == IF c = "pattern" THEN PatternStart(w) ELSE LineFollowStart(w)
CtlStop(w, c) == IF c = "pattern" THEN PatternStop(w) ELSE LineFollowStop(w)

\* an isActive that reports the adapter's own flag only
CtlIsActiveFlagOnly(w, c) == w.ctl[c].isActive

\* PatternController::isActive, LineFollowController::isActive
CtlIsActive(w, c) ==
    /\ w.ctl[c].isActive
    /\ IF c = "pattern" THEN w.seqT.enabled ELSE w.lfT.enabled

\* the switch of switchMode: the controller a MotionState selects
ControllerFor(newState) ==
    CASE newState = MOTION_PATTERN -> "pattern"
      [] newState = MOTION_LINE_FOLLOWING -> "line"
      [] OTHER -> "none"

\* a switchMode that starts the new controller without stopping the old one
switchModeNoStop(w, newState) ==
    LET c == ControllerFor(newState)
        w2 == [w EXCEPT !.active = c, !.state = newState]
    IN  IF c # "none" THEN CtlStart(w2, c) ELSE w2

\* MotionManager::switchMode
switchMode(w, newState) ==
    LET w1 == IF w.active # "none"
              THEN [CtlStop(w, w.active) EXCEPT !.active = "none"]
              ELSE w
        c == ControllerFor(newState)
        w2 == [w1 EXCEPT !.active = c, !.state = newState]
    IN  IF c # "none" THEN CtlStart(w2, c) ELSE w2

\* an emergencyStop that drops the active controller without stopping it
emergencyStopNoStop(w) ==
    [w EXCEPT !.active = "none", !.state = MOTION_EMERGENCY_STOP]

\* MotionManager::emergencyStop
emergencyStop(w) ==
    LET w1 == IF w.active # "none" THEN CtlStop(w, w.active) ELSE w
    IN  [w1 EXCEPT !.active = "none", !.state = MOTION_EMERGENCY_STOP]

\* MotionManager::isActive
ManagerIsActive(w) == w.active # "none" /\ CtlIsActive(w, w.active)

-----------------------------------------------------------------------------
(* SpecMM: the MotionManager, its callers and the scheduler *)

\* values passed to switchMode: the enumerators and one value that is none
\* of them
Modes == MOTION_IDLE..(MOTION_EMERGENCY_STOP + 1)

InitMM ==
    /\ mmActive = "none"
    /\ mmState = MOTION_IDLE
    /\ ctl = [c \in Controllers |-> ControllerInit]
    /\ mmHist = NoCalls
    /\ mmCalls = 0

SetW(w, op) ==
    /\ mmActive' = w.active
    /\ mmState' = w.state
    /\ ctl' = w.ctl
    /\ seqTask' = w.seqT
    /\ lfTask' = w.lfT
    /\ lf' = w.f
    /\ SetDU(w.du)
    /\ mmHist' = [w.hist EXCEPT !.op = op, !.prev = mmActive,
                                !.halted = \/ op = "emergencyStop"
                                           \/ w.state = MOTION_IDLE]
    /\ driveHist' = HistOf("OnEnable")
    /\ lfLog' = [lfLog EXCEPT !.op = "call"]
    /\ seqLog' = [seqLog EXCEPT !.op = "call"]
    /\ UNCHANGED <<currMove, CurrMotion, gps, imu, ramp>>

\* a caller's switchMode(newState)
MMSwitchMode(newState) == SetW(switchMode(W, newState), "switchMode")

\* a caller's emergencyStop()
MMEmergencyStop == SetW(emergencyStop(W), "emergencyStop")

\* steps of the components the controllers wrap leave the manager alone
MMIdle ==
    /\ mmHist' = [mmHist EXCEPT !.op = "none"]
    /\ UNCHANGED <<mmActive, mmState, ctl, mmCalls>>

-----------------------------------------------------------------------------
(* SpecMotion: the MotionManager, the callers of the manager and of the    *)
(* controllers' pass-through methods, and the scheduler ticking both tasks *)

\* values passed to PatternController::setPattern
MotionPatterns == {CONTINUOUS, CIRCLE}

\* a caller's PatternController::setPattern(cm)
MMSetPattern(cm) ==
    /\ SeqSetPattern(cm)
    /\ MMIdle
    /\ UNCHANGED lfVars

\* a caller's LineFollowController::setLine(l[1], l[2])
MMSetLine(l) ==
    /\ LFSetLine(l)
    /\ MMIdle
    /\ UNCHANGED seqVars

\* the calls made on the manager are counted and capped
CountedCall ==
    /\ mmCalls < MaxModeCalls
    /\ mmCalls' = mmCalls + 1

\* values passed to switchMode in SpecMotion
MotionModes == {MOTION_IDLE, MOTION_PATTERN, MOTION_LINE_FOLLOWING}

\* the scheduler's pass over the sequencer task
MMSeqPass ==
    /\ Len(seqLog.steps) < MaxCmds
    /\ SeqPass
    /\ MMIdle
    /\ UNCHANGED lfVars

\* the scheduler's pass over the LineFollower task
MMLinePass ==
    /\ LFPassUpTo(MaxSteers)
    /\ MMIdle
    /\ UNCHANGED seqVars

-----------------------------------------------------------------------------
(* sSonar: the ultrasonic driver.  A value s = [t, dist, irq, stamped] holds *)
(* the task, SonarDistance, the handler attached to the echo pin and        *)
(* whether _responseStartMicros was written.  The time between the two edge *)
(* handlers is an input: micros() - _responseStartMicros is that time.      *)

SON == [t |-> sonTask, dist |-> son.dist, irq |-> son.irq,
        stamped |-> son.stamped]

\* sSonar::sSonar: Task(1, timeOut, aS, false)
SonarInit ==
    [t |-> TaskNew(1, timeOut), dist |-> 0, irq |-> "none",
     stamped |-> FALSE]

\* sSonar::responseStart
responseStart(s) == [s EXCEPT !.irq = "falling", !.stamped = TRUE]

\* sSonar::responseEnd, elapsed microseconds after responseStart: the
\* unsigned long difference is stored in an unsigned int
responseEnd(s, elapsed) ==
    [s EXCEPT !.irq = "none", !.dist = ToUnsigned(elapsed, IntBits)]

\* the echo-pin interrupt, if any, at a point of the main program where
\* interrupts are enabled: edge = 0 is no edge, otherwise the edge arrives
\* and, for a falling edge, edge is the time since the rising edge
EchoInterrupt(s, edge) ==
    IF edge = 0 \/ s.irq = "none" THEN s
    ELSE IF s.irq = "rising" THEN responseStart(s)
    ELSE responseEnd(s, edge)

\* sSonar::Measure.  An edge can arrive between the statement that clears
\* SonarDistance and the detachInterrupt after it
Measure(s, edge) ==
    LET cleared == EchoInterrupt([s EXCEPT !.dist = 0], edge)
    IN  [cleared EXCEPT !.irq = "rising"]

\* the two bytes of an unsigned int
LowByte(v) == v % 256
HighByte(v) == (v \div 256) % 256

\* the values a read of SonarDistance in the main program can give while
\* the falling-edge handler changes it from old to new: an 8-bit processor
\* reads the two bytes one after the other
TornReads(old, new) ==
    {old, new, HighByte(old) * 256 + LowByte(new),
     HighByte(new) * 256 + LowByte(old)}

\* sSonar::Callback from the test of SonarDistance on: seen is the value
\* the test read, arg the value handed to push
CallbackWith(s, q, seen, arg) ==
    IF seen = 0
    THEN [s |-> s, q |-> q, found |-> FALSE, arg |-> 0, ok |-> FALSE,
          trig |-> FALSE]
    ELSE LET Pushed(r) ==
                 [s |-> Measure(s, 0), q |-> r.q, found |-> TRUE,
                  arg |-> arg, ok |-> r.ok, trig |-> TRUE]
         IN  Pushed(push(q, arg))

\* sSonar::Callback with no interrupt during it
SonarCallback(s, q) == CallbackWith(s, q, s.dist, s.dist)

\* sSonar::OnEnable
SonarOnEnable(s, edge) == Measure(s, edge)

\* Task::enable on the sonar: the hook runs and accepts
SonarEnable(s, edge) ==
    LET Enabled(h) == [h EXCEPT !.t = TaskEnabled(h.t, TRUE)]
    IN  Enabled(SonarOnEnable(s, edge))

\* an OnDisable that leaves the task disabled
SonarOnDisableQuiet(s, edge) == s

\* sSonar::OnDisable: restartDelayed(2), which enables the task again
SonarOnDisable(s, edge) ==
    LET Delayed(h) == [h EXCEPT !.t = TaskDelayed(h.t, 2)]
    IN  Delayed(SonarEnable([s EXCEPT !.t = TaskRearm(s.t)], edge))

\* Task::disable on the sonar: the hook runs if the task was enabled
SonarDisable(s, edge) ==
    IF s.t.enabled THEN SonarOnDisable([s EXCEPT !.t.enabled = FALSE], edge)
    ELSE s

\* sSonar::Stop: the echo pin is detached before disable() runs the hook
Stop(s) == SonarDisable([s EXCEPT !.irq = "none"], 0)

-----------------------------------------------------------------------------
(* SpecSonar: the sonar driver, the echo pin, the scheduler and the consumer *)
(* of the queue                                                             *)

\* times in microseconds between the rising and the falling edge of an echo
Widths == {300, 65536}

\* the edges that can arrive while handler irq is attached
Edges(s) ==
    IF s.irq = "falling" THEN Widths \cup {0}
    ELSE IF s.irq = "rising" THEN {0, 1} ELSE {0}

NoSonLog ==
    [op |-> "none", found |-> FALSE, arg |-> 0, trig |-> FALSE, meas |-> 0,
     pend |-> FALSE, lost |-> FALSE, wrong |-> FALSE, dup |-> FALSE,
     pushes |-> 0, stale |-> FALSE]

InitSonar ==
    /\ sonTask = SonarInit.t
    /\ son = [dist |-> 0, irq |-> "none", stamped |-> FALSE]
    /\ sonLog = NoSonLog

SetSON(s) ==
    /\ sonTask' = s.t
    /\ son' = [dist |-> s.dist, irq |-> s.irq, stamped |-> s.stamped]

\* the record of a falling-edge handler run, if edge is one
FallLogged(log, s, edge) ==
    IF edge # 0 /\ s.irq = "falling"
    THEN [log EXCEPT !.pend = TRUE, !.meas = ToUnsigned(edge, IntBits),
                     !.lost = log.lost \/ log.pend]
    ELSE log

\* the record of a Measure(): a completed measurement that was not pushed
\* is gone.  stale: SonarDistance holds the echo of a cycle older than the
\* last trigger pulse, which is so when the falling-edge handler of the
\* earlier cycle ran after Measure() cleared SonarDistance
MeasureLogged(log, s, edge) ==
    FallLogged([log EXCEPT !.pend = FALSE, !.lost = log.lost \/ log.pend,
                           !.trig = TRUE,
                           !.stale = edge # 0 /\ s.irq = "falling"], s, edge)

\* the rising edge of the echo
SonRise ==
    /\ son.irq = "rising"
    /\ SetSON(responseStart(SON))
    /\ sonLog' = [sonLog EXCEPT !.op = "rise", !.trig = FALSE]
    /\ UNCHANGED queueVars

\* the falling edge of the echo
SonFall(w) ==
    /\ son.irq = "falling"
    /\ SetSON(responseEnd(SON, w))
    /\ sonLog' = [FallLogged(sonLog, SON, w) EXCEPT !.op = "fall",
                                                    !.trig = FALSE,
                                                    !.stale = FALSE]
    /\ UNCHANGED queueVars

\* a caller's enable()
SonEnable(edge) ==
    /\ SetSON(SonarEnable(SON, edge))
    /\ sonLog' = [MeasureLogged(sonLog, SON, edge) EXCEPT !.op = "enable"]
    /\ UNCHANGED queueVars

\* a caller's Stop()
SonStop ==
    /\ SetSON(Stop(SON))
    /\ sonLog' = [(IF sonTask.enabled THEN MeasureLogged(sonLog, SON, 0)
                   ELSE [sonLog EXCEPT !.trig = FALSE])
                  EXCEPT !.op = "stop"]
    /\ UNCHANGED queueVars

\* the scheduler's pass over the sonar task whose iterations are used up
SonExhausted(edge) ==
    /\ TaskExhausted(sonTask)
    /\ SetSON(SonarDisable(SON, edge))
    /\ sonLog' = [MeasureLogged(sonLog, SON, edge) EXCEPT !.op = "restart"]
    /\ UNCHANGED queueVars

\* the scheduler's pass over the due sonar task with no echo edge during
\* the tick callback; the ticks that push are counted and capped
SonTick ==
    /\ TaskDue(sonTask)
    /\ son.dist # 0 => sonLog.pushes < MaxSonarPushes
    /\ \E r \in {SonarCallback([SON EXCEPT !.t = TaskCountTick(sonTask)], Q)} :
          /\ SetSON([r.s EXCEPT !.t = TaskDelayed(r.s.t, 0)])
          /\ SetQ(r.q)
          /\ sonLog' =
                [sonLog EXCEPT
                   !.op = "tick", !.found = r.found, !.arg = r.arg,
                   !.trig = r.trig,
                   !.stale = IF r.found THEN FALSE ELSE sonLog.stale,
                   !.pend = IF r.found THEN FALSE ELSE sonLog.pend,
                   !.dup = sonLog.dup \/ (r.found /\ ~sonLog.pend),
                   !.wrong = sonLog.wrong
                                \/ (r.found /\ r.arg # sonLog.meas),
                   !.pushes = sonLog.pushes + (IF r.found THEN 1 ELSE 0)]
    /\ UNCHANGED <<qPushed, qPulled, qLast>>

\* the scheduler's pass over the due sonar task with the falling edge,
\* elapsed w, arriving while the tick callback reads SonarDistance: the
\* test sees one of the values of a torn read, and push gets the value the
\* test saw or the value read again
SonTickRaced(w) ==
    /\ TaskDue(sonTask)
    /\ sonLog.pushes < MaxSonarPushes
    /\ son.irq = "falling"
    /\ \E s1 \in {responseEnd([SON EXCEPT !.t = TaskCountTick(sonTask)], w)} :
       \E seen \in TornReads(son.dist, s1.dist) :
       \E arg \in {seen, s1.dist} :
       \E r \in {CallbackWith(s1, Q, seen, arg)} :
          /\ SetSON([r.s EXCEPT !.t = TaskDelayed(r.s.t, 0)])
          /\ SetQ(r.q)
          /\ sonLog' =
                [sonLog EXCEPT
                   !.op = "tick", !.found = r.found, !.arg = r.arg,
                   !.trig = r.trig, !.meas = s1.dist,
                   !.stale = FALSE,
                   !.pend = ~r.found,
                   !.lost = sonLog.lost \/ sonLog.pend,
                   !.wrong = sonLog.wrong \/ (r.found /\ r.arg # s1.dist),
                   !.pushes = sonLog.pushes + (IF r.found THEN 1 ELSE 0)]
    /\ UNCHANGED <<qPushed, qPulled, qLast>>

\* the consumer's pull of a measurement
SonPull ==
    /\ dataAvailable(Q)
    /\ SetQ(pull(Q, 0).q)
    /\ sonLog' = [sonLog EXCEPT !.op = "pull", !.trig = FALSE]
    /\ UNCHANGED <<sonTask, son, qPushed, qPulled, qLast>>

-----------------------------------------------------------------------------
(* PerimeterStorage: a value p = [origin, waypoints, count, minX, maxX,     *)
(* minY, maxY, boundsValid].  Coordinates are int32_t millimetres; the      *)
(* model draws them from values whose sums and differences stay within the  *)
(* 32 bits.                                                                 *)

\* the int16_t pair RelativeWaypoint
Rel(dx, dy) == [dx |-> dx, dy |-> dy]

\* PerimeterStorage::PerimeterStorage; the array is in zeroed static storage
PerimeterInit ==
    [origin |-> Pt(0, 0),
     waypoints |-> [i \in 0..(MAX_PERIMETER_WAYPOINTS - 2) |-> Rel(0, 0)],
     count |-> 0, minX |-> 0, maxX |-> 0, minY |-> 0, maxY |-> 0,
     boundsValid |-> FALSE]

RECURSIVE SumOffsets(_, _, _, _)
\* the loop of getWaypoint and getWaypoints: pos after adding the offsets
\* i..(n - 1)
SumOffsets(p, pos, i, n) ==
    IF i >= n THEN pos
    ELSE SumOffsets(p, Pt(pos.x + p.waypoints[i].dx,
                          pos.y + p.waypoints[i].dy), i + 1, n)

\* a getWaypoint that leaves out the last offset
getWaypointShort(p, index) ==
    IF index < 0 \/ index >= p.count THEN Pt(0, 0)
    ELSE IF index = 0 THEN p.origin
    ELSE SumOffsets(p, p.origin, 0, index - 1)

\* PerimeterStorage::getWaypoint
getWaypoint(p, index) ==
    IF index < 0 \/ index >= p.count THEN Pt(0, 0)
    ELSE IF index = 0 THEN p.origin
    ELSE SumOffsets(p, p.origin, 0, index)

\* PerimeterStorage::getWaypoints into a buffer of maxCount >= 1 points:
\* [count, buffer], buffer being the points written, buffer[0] always
getWaypoints(p, maxCount) ==
    LET count == IF p.count < maxCount THEN p.count ELSE maxCount
    IN  [count |-> count,
         buffer |-> [i \in 0..(Max(count, 1) - 1) |->
                        SumOffsets(p, p.origin, 0, i)]]

\* PerimeterStorage::getCount
getCount(p) == p.count

\* PerimeterStorage::clear
clear(p) == [p EXCEPT !.count = 0, !.origin = Pt(0, 0), !.boundsValid = FALSE]

\* an addWaypoint that stores the offset before it checks its range
addWaypointUnchecked(p, x, y) ==
    IF p.count >= MAX_PERIMETER_WAYPOINTS THEN [ok |-> FALSE, p |-> p]
    ELSE IF p.count = 0
    THEN [ok |-> TRUE,
          p |-> [p EXCEPT !.origin = Pt(x, y), !.count = 1,
                          !.boundsValid = FALSE]]
    ELSE LET Store(dx, dy) ==
                 [ok |-> ~(dx < -32767 \/ dx > 32767
                             \/ dy < -32767 \/ dy > 32767),
                  p |-> [p EXCEPT !.waypoints[p.count - 1] =
                                      Rel(ToSigned(dx, 16), ToSigned(dy, 16)),
                                  !.count = p.count + 1,
                                  !.boundsValid = FALSE]]
             From(lastPoint) == Store(x - lastPoint.x, y - lastPoint.y)
         IN  From(getWaypoint(p, p.count - 1))

\* PerimeterStorage::addWaypoint: [ok, p]
addWaypoint(p, x, y) ==
    IF p.count >= MAX_PERIMETER_WAYPOINTS THEN [ok |-> FALSE, p |-> p]
    ELSE IF p.count = 0
    THEN [ok |-> TRUE,
          p |-> [p EXCEPT !.origin = Pt(x, y), !.count = 1,
                          !.boundsValid = FALSE]]
    ELSE LET Store(dx, dy) ==
                 IF dx < -32767 \/ dx > 32767 \/ dy < -32767 \/ dy > 32767
                 THEN [ok |-> FALSE, p |-> p]
                 ELSE [ok |-> TRUE,
                       p |-> [p EXCEPT !.waypoints[p.count - 1] =
                                          Rel(ToSigned(dx, 16),
                                              ToSigned(dy, 16)),
                                       !.count = p.count + 1,
                                       !.boundsValid = FALSE]]
             From(lastPoint) == Store(x - lastPoint.x, y - lastPoint.y)
         IN  From(getWaypoint(p, p.count - 1))

RECURSIVE LoadFrom(_, _, _, _)
\* the loop of loadFromArray from points[i] on
LoadFrom(p, points, i, count) ==
    IF i >= count THEN [ok |-> TRUE, p |-> p]
    ELSE LET Next(r) == IF r.ok THEN LoadFrom(r.p, points, i + 1, count)
                        ELSE [ok |-> FALSE, p |-> r.p]
         IN  Next(addWaypoint(p, points[i + 1].x, points[i + 1].y))

\* PerimeterStorage::loadFromArray(points, count) with count points given
loadFromArray(p, points) ==
    IF Len(points) > MAX_PERIMETER_WAYPOINTS
    THEN [ok |-> FALSE, p |-> clear(p)]
    ELSE LoadFrom(clear(p), points, 0, Len(points))

RECURSIVE BoundsFrom(_, _, _)
\* the loop of calculateBounds from offset i on: b = [pos, minX, maxX, minY,
\* maxY]
BoundsFrom(p, b, i) ==
    IF i >= p.count - 1 THEN b
    ELSE LET At(pos) ==
                 BoundsFrom(p, [pos |-> pos,
                                minX |-> Min(b.minX, pos.x),
                                maxX |-> Max(b.maxX, pos.x),
                                minY |-> Min(b.minY, pos.y),
                                maxY |-> Max(b.maxY, pos.y)], i + 1)
         IN  At(Pt(b.pos.x + p.waypoints[i].dx, b.pos.y + p.waypoints[i].dy))

\* PerimeterStorage::calculateBounds
calculateBounds(p) ==
    IF p.count = 0
    THEN [p EXCEPT !.minX = 0, !.maxX = 0, !.minY = 0, !.maxY = 0,
                   !.boundsValid = TRUE]
    ELSE LET Set(b) == [p EXCEPT !.minX = b.minX, !.maxX = b.maxX,
                                 !.minY = b.minY, !.maxY = b.maxY,
                                 !.boundsValid = TRUE]
         IN  Set(BoundsFrom(p, [pos |-> p.origin,
                                minX |-> p.origin.x, maxX |-> p.origin.x,
                                minY |-> p.origin.y, maxY |-> p.origin.y],
                            0))

\* PerimeterStorage::getBounds: the storage after it; the bounds are its
\* fields
getBounds(p) == IF ~p.boundsValid THEN calculateBounds(p) ELSE p

-----------------------------------------------------------------------------
(* GeometryUtils.  The arguments are int32_t; the model draws coordinates  *)
(* whose products stay within the 32 bits.                                 *)

RECURSIVE HighestBit(_, _)
\* the first loop of integerSqrt
HighestBit(bit, n) == IF bit > n THEN HighestBit(Shr(bit, 2), n) ELSE bit

RECURSIVE SqrtBits(_, _, _)
\* the second loop of integerSqrt
SqrtBits(n, result, bit) ==
    IF bit = 0 THEN result
    ELSE IF n >= result + bit
         THEN SqrtBits(n - (result + bit), Shr(result, 1) + bit, Shr(bit, 2))
         ELSE SqrtBits(n, Shr(result, 1), Shr(bit, 2))

\* an integerSqrt whose first bit is 2^28
integerSqrtFromBit28(n) ==
    IF n <= 0 THEN 0
    ELSE IF n = 1 THEN 1
    ELSE SqrtBits(n, 0, HighestBit(Pow2(28), n))

\* GeometryUtils::integerSqrt and, the same text, IntegerMath::integerSqrt
integerSqrt(n) ==
    IF n <= 0 THEN 0
    ELSE IF n = 1 THEN 1
    ELSE SqrtBits(n, 0, HighestBit(Pow2(30), n))

\* GeometryUtils::vectorLength
vectorLength(x, y) ==
    IF x > 32767 \/ x < -32767 \/ y > 32767 \/ y < -32767
    THEN integerSqrt(CDiv(x, 2) * CDiv(x, 2) + CDiv(y, 2) * CDiv(y, 2)) * 2
    ELSE integerSqrt(x * x + y * y)

\* GeometryUtils::normalizeVector
normalizeVector(x, y) ==
    LET Scaled(len) ==
            IF len = 0 THEN Pt(0, 0)
            ELSE Pt(CDiv(x * 1000, len), CDiv(y * 1000, len))
    IN  Scaled(vectorLength(x, y))

\* GeometryUtils::dotProduct
dotProduct(x1, y1, x2, y2) == CDiv(x1 * x2 + y1 * y2, 1000)

\* GeometryUtils::rotateCCW90
rotateCCW90(x, y) == Pt(-y, x)

\* GeometryUtils::rotateCW90
rotateCW90(x, y) == Pt(y, -x)

\* GeometryUtils::getPerpendicular
getPerpendicular(x, y, leftSide) ==
    IF leftSide THEN rotateCCW90(x, y) ELSE rotateCW90(x, y)

-----------------------------------------------------------------------------
(* PerimeterOffset: a value o = [offsetWaypoints, offsetCount,             *)
(* currentOffset].  The expression 1000 * 1000 of calculateVertexOffset is *)
(* a product of two int: where int has 16 bits it overflows, and the value *)
(* the build gives it is the parameter million.                            *)

\* PerimeterOffset::PerimeterOffset
OffsetInit ==
    [offsetWaypoints |-> [i \in 0..(MAX_OFFSET_WAYPOINTS - 1) |-> Pt(0, 0)],
     offsetCount |-> 0, currentOffset |-> 0]

\* the values a build can give 1000 * 1000: the product, and the product
\* wrapped to the width of int
Millions == {1000000, ToSigned(1000000, IntBits)}

\* the scale of calculateVertexOffset from the dot product of the normals
OffsetScale(dotNormals, million) ==
    LET Limited(scale) ==
            IF scale > 5000 THEN 5000 ELSE IF scale < 1000 THEN 1000 ELSE scale
        FromCos(cosHalfAngle) ==
            IF cosHalfAngle > 100 THEN CDiv(million, cosHalfAngle) ELSE 10000
    IN  IF dotNormals > 0
        THEN Limited(FromCos(integerSqrt(
                         CDiv((1000 + dotNormals) * 1000, 2))))
        ELSE Limited(2000)

\* PerimeterOffset::calculateVertexOffset
calculateVertexOffset(prev, curr, next, offset_mm, million) ==
    LET Point(normBisector, scale) ==
            Pt(curr.x + CDiv(normBisector.x * offset_mm * scale, million),
               curr.y + CDiv(normBisector.y * offset_mm * scale, million))
        Bisect(norm1, norm2) ==
            Point(normalizeVector(CDiv(norm1.x + norm2.x, 2),
                                  CDiv(norm1.y + norm2.y, 2)),
                  OffsetScale(dotProduct(norm1.x, norm1.y, norm2.x, norm2.y),
                              million))
        Normals(perp1, perp2) ==
            Bisect(normalizeVector(perp1.x, perp1.y),
                   normalizeVector(perp2.x, perp2.y))
    IN  Normals(getPerpendicular(prev.x - curr.x, prev.y - curr.y, TRUE),
                getPerpendicular(next.x - curr.x, next.y - curr.y, FALSE))

RECURSIVE OffsetFrom(_, _, _, _, _, _)
\* the loop of generateInwardOffset from vertex i on: [count, o]
OffsetFrom(o, p, i, originalCount, offset_mm, million) ==
    IF i >= originalCount THEN [count |-> o.offsetCount, o |-> o]
    ELSE IF o.offsetCount < MAX_OFFSET_WAYPOINTS
    THEN OffsetFrom(
             [o EXCEPT !.offsetWaypoints[o.offsetCount] =
                           calculateVertexOffset(
                               getWaypoint(p, (i - 1 + originalCount)
                                                  % originalCount),
                               getWaypoint(p, i),
                               getWaypoint(p, (i + 1) % originalCount),
                               offset_mm, million),
                       !.offsetCount = o.offsetCount + 1],
             p, i + 1, originalCount, offset_mm, million)
    ELSE [count |-> 0, o |-> o]

\* PerimeterOffset::generateInwardOffset on the perimeter p: [count, o]
generateInwardOffset(o, p, offset_mm, million) ==
    IF getCount(p) < 3 THEN [count |-> 0, o |-> o]
    ELSE IF offset_mm < 0 THEN [count |-> 0, o |-> o]
    ELSE OffsetFrom([o EXCEPT !.currentOffset = offset_mm, !.offsetCount = 0],
                    p, 0, getCount(p), offset_mm, million)

\* PerimeterOffset::getOffsetWaypoint
getOffsetWaypoint(o, index) ==
    IF index < 0 \/ index >= o.offsetCount THEN Pt(0, 0)
    ELSE o.offsetWaypoints[index]

-----------------------------------------------------------------------------
(* ParallelStripeMower: a value m of its members; x = [m, t, f, du, g, i]  *)
(* is the mower with the LineFollower (task t, members f), the drive unit, *)
(* the GPS and the IMU it reaches through its pointers.                    *)

\* ParallelStripeMower::ParallelStripeMower
MowerInit ==
    [stripeWidth |-> 250, turnRadius |-> 500, bufferZone |-> 750,
     perimeterLaps |-> 3, perimeter |-> PerimeterInit, offset |-> OffsetInit,
     currentStripe |-> 0, movingRight |-> TRUE, totalStripes |-> 0,
     minX |-> 0, maxX |-> 0, minY |-> 0, maxY |-> 0,
     state |-> IDLE, currentLap |-> 0]

\* ParallelStripeMower::setStripeWidth
setStripeWidth(m, width_mm) == [m EXCEPT !.stripeWidth = width_mm]

\* ParallelStripeMower::setTurnRadius
setTurnRadius(m, radius_mm) == [m EXCEPT !.turnRadius = radius_mm]

\* ParallelStripeMower::setBufferZone
setBufferZone(m, buffer_mm) == [m EXCEPT !.bufferZone = buffer_mm]

\* ParallelStripeMower::setPerimeterLaps
setPerimeterLaps(m, laps) == [m EXCEPT !.perimeterLaps = laps]

\* ParallelStripeMower::calculateBoundingBox
calculateBoundingBox(m) ==
    LET Take(p) == [m EXCEPT !.perimeter = p, !.minX = p.minX,
                             !.maxX = p.maxX, !.minY = p.minY,
                             !.maxY = p.maxY]
    IN  Take(getBounds(m.perimeter))

\* ParallelStripeMower::calculateTotalStripes
calculateTotalStripes(m) ==
    LET mowingWidth ==
            (m.maxX - m.minX) - ToSigned(2 * m.bufferZone, IntBits)
    IN  IF mowingWidth <= 0 THEN [m EXCEPT !.totalStripes = 0]
        ELSE [m EXCEPT !.totalStripes =
                           ToSigned(CDiv(mowingWidth, m.stripeWidth) + 1,
                                    IntBits)]

\* ParallelStripeMower::setPerimeter
setPerimeter(m, waypoints) ==
    LET Loaded(r) ==
            IF ~r.ok THEN [m EXCEPT !.perimeter = r.p]
            ELSE calculateTotalStripes(
                     calculateBoundingBox([m EXCEPT !.perimeter = r.p]))
    IN  Loaded(loadFromArray(m.perimeter, waypoints))

\* _lineFollower->setLine(start, end); _lineFollower->enable();
FollowLine(x, start, end) ==
    LET Enabled(r) == [x EXCEPT !.t = r.t, !.f = r.f]
    IN  Enabled(LineEnable(x.t, setLineMM(x.f, start, end), x.g, x.i))

\* ParallelStripeMower::startPerimeterLap
startPerimeterLap(x, million) ==
    LET offset_mm == ToSigned(x.m.currentLap * x.m.stripeWidth, IntBits)
        Generated(r) ==
            IF r.count < 2 THEN [x EXCEPT !.m.offset = r.o]
            ELSE FollowLine([x EXCEPT !.m.offset = r.o],
                            getOffsetWaypoint(r.o, 0),
                            getOffsetWaypoint(r.o, 1))
    IN  IF offset_mm = 0
        THEN FollowLine(x, getWaypoint(x.m.perimeter, 0),
                        getWaypoint(x.m.perimeter, 1))
        ELSE Generated(generateInwardOffset(x.m.offset, x.m.perimeter,
                                            offset_mm, million))

\* the X of stripe number stripe
StripeX(m, stripe) ==
    m.minX + m.bufferZone + ToSigned(stripe * m.stripeWidth, IntBits)

\* a startNextStripe that runs every stripe from the low edge to the high one
startNextStripeOneWay(x) ==
    LET stripeX == StripeX(x.m, x.m.currentStripe)
        low == x.m.minY + x.m.bufferZone
        high == x.m.maxY - x.m.bufferZone
    IN  FollowLine(x, Pt(stripeX, low), Pt(stripeX, high))

\* ParallelStripeMower::startNextStripe
startNextStripe(x) ==
    LET stripeX == StripeX(x.m, x.m.currentStripe)
        low == x.m.minY + x.m.bufferZone
        high == x.m.maxY - x.m.bufferZone
    IN  IF x.m.movingRight
        THEN FollowLine(x, Pt(stripeX, low), Pt(stripeX, high))
        ELSE FollowLine(x, Pt(stripeX, high), Pt(stripeX, low))

\* ParallelStripeMower::generateTurnArc: the waypoints written, in order
generateTurnArc(m) ==
    LET currentX == StripeX(m, m.currentStripe)
        currentY == IF m.movingRight THEN m.maxY - m.bufferZone
                    ELSE m.minY + m.bufferZone
        nextX == StripeX(m, m.currentStripe + 1)
        nextY == IF m.movingRight THEN m.minY + m.bufferZone
                 ELSE m.maxY - m.bufferZone
        center == Pt(currentX + m.turnRadius, currentY)
        startAngle == IF m.movingRight THEN ANGLE_90 ELSE ANGLE_270
        Arc(angle) ==
            Pt(center.x + CDiv(m.turnRadius * cos_lookup(angle), 1000),
               center.y + CDiv(m.turnRadius * sin_lookup(angle), 1000))
    IN  [i \in 1..5 |->
            Arc(normalizeAngle(ToSigned(startAngle + (i - 1) * 450, 16)))]
           \o <<Pt(nextX, nextY)>>

\* ParallelStripeMower::startTurn
startTurn(x) ==
    LET Along(arcWaypoints) ==
            IF Len(arcWaypoints) >= 2
            THEN FollowLine(x, arcWaypoints[1],
                            arcWaypoints[Len(arcWaypoints)])
            ELSE x
    IN  Along(generateTurnArc(x.m))

\* ParallelStripeMower::startMowing
startMowing(x, million) ==
    IF getCount(x.m.perimeter) < 3 THEN x
    ELSE startPerimeterLap(
             [x EXCEPT !.m.state = PERIMETER_LAPS, !.m.currentLap = 0,
                       !.m.currentStripe = 0, !.m.movingRight = TRUE],
             million)

\* _lineFollower->disable()
StopFollowing(x) ==
    LET Disabled(r) == [x EXCEPT !.t = r.t, !.du = r.du]
    IN  Disabled(LineDisable(x.t, x.du))

\* an update() that does not count the perimeter laps
updateSameLap(x, million) ==
    CASE x.m.state = PERIMETER_LAPS ->
            IF ~x.f.lineComplete THEN x
            ELSE IF x.m.currentLap + 1 < x.m.perimeterLaps
            THEN startPerimeterLap(x, million)
            ELSE startNextStripe(
                     [x EXCEPT !.m.currentLap = x.m.currentLap + 1,
                               !.m.state = MOWING_STRIPE,
                               !.m.currentStripe = 0])
      [] x.m.state = MOWING_STRIPE ->
            IF ~x.f.lineComplete THEN x
            ELSE IF x.m.currentStripe >= x.m.totalStripes - 1
            THEN [StopFollowing(x) EXCEPT !.m.state = COMPLETE]
            ELSE startTurn([StopFollowing(x) EXCEPT
                               !.m.state = EXECUTING_TURN])
      [] x.m.state = EXECUTING_TURN ->
            IF ~x.f.lineComplete THEN x
            ELSE startNextStripe(
                     [x EXCEPT !.m.currentStripe = x.m.currentStripe + 1,
                               !.m.movingRight = ~x.m.movingRight,
                               !.m.state = MOWING_STRIPE])
      [] OTHER -> x

\* an update() that leaves a turn without waiting for the line follower
updateEagerTurn(x, million) ==
    CASE x.m.state = PERIMETER_LAPS ->
            IF ~x.f.lineComplete THEN x
            ELSE IF x.m.currentLap + 1 < x.m.perimeterLaps
            THEN startPerimeterLap(
                     [x EXCEPT !.m.currentLap = x.m.currentLap + 1], million)
            ELSE startNextStripe(
                     [x EXCEPT !.m.currentLap = x.m.currentLap + 1,
                               !.m.state = MOWING_STRIPE,
                               !.m.currentStripe = 0])
      [] x.m.state = MOWING_STRIPE ->
            IF ~x.f.lineComplete THEN x
            ELSE IF x.m.currentStripe >= x.m.totalStripes - 1
            THEN [StopFollowing(x) EXCEPT !.m.state = COMPLETE]
            ELSE startTurn([StopFollowing(x) EXCEPT
                               !.m.state = EXECUTING_TURN])
      [] x.m.state = EXECUTING_TURN ->
            IF FALSE THEN x
            ELSE startNextStripe(
                     [x EXCEPT !.m.currentStripe = x.m.currentStripe + 1,
                               !.m.movingRight = ~x.m.movingRight,
                               !.m.state = MOWING_STRIPE])
      [] OTHER -> x

\* ParallelStripeMower::update
update(x, million) ==
    CASE x.m.state = PERIMETER_LAPS ->
            IF ~x.f.lineComplete THEN x
            ELSE IF x.m.currentLap + 1 < x.m.perimeterLaps
            THEN startPerimeterLap(
                     [x EXCEPT !.m.currentLap = x.m.currentLap + 1], million)
            ELSE startNextStripe(
                     [x EXCEPT !.m.currentLap = x.m.currentLap + 1,
                               !.m.state = MOWING_STRIPE,
                               !.m.currentStripe = 0])
      [] x.m.state = MOWING_STRIPE ->
            IF ~x.f.lineComplete THEN x
            ELSE IF x.m.currentStripe >= x.m.totalStripes - 1
            THEN [StopFollowing(x) EXCEPT !.m.state = COMPLETE]
            ELSE startTurn([StopFollowing(x) EXCEPT
                               !.m.state = EXECUTING_TURN])
      [] x.m.state = EXECUTING_TURN ->
            IF ~x.f.lineComplete THEN x
            ELSE startNextStripe(
                     [x EXCEPT !.m.currentStripe = x.m.currentStripe + 1,
                               !.m.movingRight = ~x.m.movingRight,
                               !.m.state = MOWING_STRIPE])
      [] OTHER -> x

-----------------------------------------------------------------------------
(* SpecMower: the mower, its callers, the sensors and the scheduler *)

\* the configuration the callers give the mower before they start it.  The
\* stripe width is small so that the offset perimeters stay within a few
\* metres whatever value the build gives 1000 * 1000.
MowerConfig == [stripeWidth |-> 10, turnRadius |-> 100, bufferZone |-> 480]

\* perimeters handed to setPerimeter: three stripes wide, too narrow for a
\* stripe, and too few points to mow
MowerPerimeters ==
    {<<Pt(0, 0), Pt(980, 0), Pt(0, 1400)>>,
     <<Pt(0, 0), Pt(960, 0), Pt(0, 1400)>>,
     <<Pt(0, 0), Pt(1000, 0)>>}

\* lap counts handed to setPerimeterLaps
LapCounts == 0..MaxLaps

\* million: the value this build gives 1000 * 1000, 0 until it is first
\* evaluated; stripes: the stripe lines commanded since startMowing
NoMowLog == [op |-> "none", million |-> 0, stripes |-> 0]

BuildMillions == IF mowLog.million = 0 THEN Millions ELSE {mowLog.million}

X == [m |-> mower, t |-> lfTask, f |-> lf, du |-> DU, g |-> gps, i |-> imu]

InitMower ==
    /\ mower = MowerInit
    /\ mowLog = NoMowLog

SetX(x, op, million) ==
    /\ mower' = x.m
    /\ lfTask' = x.t
    /\ lf' = x.f
    /\ SetDU(x.du)
    /\ mowLog' = [op |-> op, million |-> million,
                  stripes |-> IF op = "start" THEN 0
                              ELSE IF /\ x.m.state = MOWING_STRIPE
                                      /\ mower.state # MOWING_STRIPE
                                   THEN mowLog.stripes + 1
                                   ELSE mowLog.stripes]
    /\ driveHist' = HistOf("OnEnable")
    /\ lfLog' = [lfLog EXCEPT !.op = "call"]
    /\ UNCHANGED <<gps, imu, ramp>>

\* the callers set the mower up while it is not mowing
NotMowing == mower.state = IDLE

\* a caller's setPerimeter(waypoints, count)
MSetPerimeter(waypoints) ==
    /\ NotMowing
    /\ SetX([X EXCEPT !.m = setPerimeter(mower, waypoints)], "setPerimeter",
            mowLog.million)

\* a caller's setPerimeterLaps(laps)
MSetPerimeterLaps(laps) ==
    /\ NotMowing
    /\ SetX([X EXCEPT !.m = setPerimeterLaps(mower, laps)], "setLaps",
            mowLog.million)

\* a caller's setStripeWidth, setBufferZone and setTurnRadius
MConfigure ==
    /\ NotMowing
    /\ SetX([X EXCEPT !.m = setTurnRadius(
                             setBufferZone(
                                 setStripeWidth(mower,
                                                MowerConfig.stripeWidth),
                                 MowerConfig.bufferZone),
                             MowerConfig.turnRadius)],
            "configure", mowLog.million)

\* a caller's startMowing() on the configured mower
MStartMowing(million) ==
    /\ NotMowing
    /\ mower.stripeWidth = MowerConfig.stripeWidth
    /\ SetX(startMowing(X, million), "start", million)

\* the main loop's update()
MUpdate(million) == SetX(update(X, million), "update", million)

\* the GPS reports the mower at the end of the line being followed, or back
\* at its start
MGpsFix(atEnd) ==
    /\ lf.lineSet
    /\ gps' = setPositionMM(gps, IF atEnd THEN lf.endPoint ELSE lf.startPoint)
    /\ mowLog' = [mowLog EXCEPT !.op = "sensor"]
    /\ lfLog' = [lfLog EXCEPT !.op = "sensor"]
    /\ UNCHANGED <<mower, lfTask, lf, imu, wheelVars>>

\* the scheduler's pass over the LineFollower task once its delay has
\* elapsed; the passes that steer are counted and capped, the pass that
\* completes the line is not
MTick ==
    /\ TaskDue(lfTask)
    /\ \E hook \in BOOLEAN :
          \E u \in {LinePass(lfTask, lf, DU, gps, imu, hook)} :
              /\ u.r.cont => lfLog.cmds < MaxSteers
              /\ lfTask' = u.t
              /\ lf' = u.f
              /\ SetDU(u.du)
              /\ lfLog' = [lfLog EXCEPT !.op = "tick", !.steer = u.r.steer,
                                        !.left = u.r.left,
                                        !.right = u.r.right,
                                        !.cmds = IF u.r.cont THEN @ + 1 ELSE @]
    /\ mowLog' = [mowLog EXCEPT !.op = "tick"]
    /\ driveHist' = HistOf("OnEnable")
    /\ UNCHANGED <<mower, gps, imu, ramp>>

-----------------------------------------------------------------------------
(* Histories of the offset generator, the IMU driver and the pure functions *)

NoOffLog == [op |-> "none", offset |-> 0, count |-> 0]

NoImuLog == [op |-> "none", arg |-> 0]

NoCalc == [fn |-> "none", arg |-> 0, res |-> <<>>]

-----------------------------------------------------------------------------
(* SpecPerim: PerimeterStorage and its callers *)

\* waypoints handed to addWaypoint and loadFromArray
Waypoints == {Pt(0, 0), Pt(40000, 0)}

\* n waypoints going back and forth between two points a full segment apart
ZigZag(n) == [i \in 1..n |-> IF i % 2 = 1 THEN Pt(0, 0) ELSE Pt(32767, -32767)]

\* arrays handed to loadFromArray: none, a full one, one point more than
\* the capacity, one whose last segment is too long, one whose first is
WaypointLists ==
    {<<>>,
     <<Pt(65534, -65534), Pt(32767, -32767), Pt(0, 0)>>,
     ZigZag(MAX_PERIMETER_WAYPOINTS),
     ZigZag(MAX_PERIMETER_WAYPOINTS + 1),
     <<Pt(0, 0), Pt(32767, -32767), Pt(-1, 0)>>,
     <<Pt(0, 0), Pt(40000, 0)>>}

\* the segment from a to b fits the 16-bit offsets
SegmentFits(a, b) ==
    /\ b.x - a.x >= -32767 /\ b.x - a.x <= 32767
    /\ b.y - a.y >= -32767 /\ b.y - a.y <= 32767

\* every segment of the list fits
AllFit(points) ==
    \A i \in 1..(Len(points) - 1) : SegmentFits(points[i], points[i + 1])

\* the longest prefix of the list that is within the capacity and whose
\* segments all fit
FittingPrefix(points) ==
    LET good == {n \in 0..Len(points) :
                    /\ n <= MAX_PERIMETER_WAYPOINTS
                    /\ AllFit(SubSeq(points, 1, n))}
    IN  SubSeq(points, 1, CHOOSE n \in good : \A m \in good : m <= n)

NoPerimLog ==
    [op |-> "none", ok |-> FALSE, input |-> <<>>, before |-> PerimeterInit,
     pts |-> <<>>]

InitPerim ==
    /\ perim = PerimeterInit
    /\ perimLog = NoPerimLog

\* a caller's addWaypoint(pt)
PAdd(pt) ==
    \E r \in {addWaypoint(perim, pt.x, pt.y)} :
        /\ perim' = r.p
        /\ perimLog' =
              [op |-> "add", ok |-> r.ok, input |-> <<pt>>, before |-> perim,
               pts |-> IF /\ Len(perimLog.pts) < MAX_PERIMETER_WAYPOINTS
                          /\ (perimLog.pts # <<>> =>
                                 SegmentFits(perimLog.pts[Len(perimLog.pts)],
                                             pt))
                       THEN Append(perimLog.pts, pt) ELSE perimLog.pts]

\* a caller's loadFromArray(points, Len(points))
PLoad(points) ==
    \E r \in {loadFromArray(perim, points)} :
        /\ perim' = r.p
        /\ perimLog' =
              [op |-> "load", ok |-> r.ok, input |-> points,
               before |-> perim,
               pts |-> IF Len(points) > MAX_PERIMETER_WAYPOINTS THEN <<>>
                       ELSE FittingPrefix(points)]

\* a caller's clear()
PClear ==
    /\ perim' = clear(perim)
    /\ perimLog' = [NoPerimLog EXCEPT !.op = "clear", !.ok = TRUE]

\* a caller's getBounds()
PBounds ==
    /\ perim' = getBounds(perim)
    /\ perimLog' = [NoPerimLog EXCEPT !.op = "bounds", !.ok = TRUE,
                                      !.pts = perimLog.pts]

-----------------------------------------------------------------------------
(* SpecMath: calls of the integer mathematics, one at a time *)

\* angles handed to sin_int and cos_int: the whole domain
TrigAngles == 0..(ANGLE_360 - 1)

\* a caller's sin_int(a) and cos_int(a)
MathSinCos(a) ==
    /\ calc.fn = "none"
    /\ calc' = [fn |-> "sincos", arg |-> a, res |-> <<sin_int(a), cos_int(a)>>]
    /\ UNCHANGED imuLog

\* arguments handed to integerSqrt: the small ones, and the squares of some
\* roots up to 2^15 with their neighbours
SqrtRoots == {16, 255, 1000, 4096, 23170, 32767, Pow2(15)}

SqrtInputs ==
    ((0..150) \cup {r * r + d : r \in SqrtRoots, d \in {-1, 0, 1}})
        \ {Pow2(30) + 1}

\* a caller's integerSqrt(n)
MathIntegerSqrt(n) ==
    /\ calc.fn = "none"
    /\ calc' = [fn |-> "integerSqrt", arg |-> n, res |-> <<integerSqrt(n)>>]
    /\ UNCHANGED imuLog

\* the call returns
MathReturn ==
    /\ calc.fn # "none"
    /\ calc' = NoCalc
    /\ UNCHANGED imuLog

-----------------------------------------------------------------------------
(* SpecIMU: the IMU driver, its callers and the gyroscope *)

\* readings of the gyroscope's Z axis
GyroReadings == {-32768, -131, 0, 1310, 32767}

\* milliseconds between two calls of update()
UpdateGaps == {0, 10, 1000}

\* headings handed to setHeading
HeadingArgs == {-32768, -3600, -1, 0, 3599, 3600, 32767}

\* a caller's begin()
IBegin ==
    /\ imu' = IMUBegin(imu)
    /\ imuLog' = [op |-> "begin", arg |-> 0]

\* a caller's update(); the gyro bias is the constructor's 0
IUpdate(gyroZ, deltaTimeMs) ==
    \E change \in {HeadingChange(GyroRate(gyroZ, 0), deltaTimeMs)} :
        \E sum \in HeadingSums(imu.heading, IF imu.initialized THEN change
                                            ELSE 0) :
            /\ imu' = IMUupdate(imu, gyroZ, 0, deltaTimeMs, sum)
            /\ imuLog' = [op |-> "update", arg |-> change]

\* a caller's setHeading(h)
ISetHeading(h) ==
    /\ imu' = setHeading(imu, h)
    /\ imuLog' = [op |-> "setHeading", arg |-> h]

\* a caller's resetHeading()
IResetHeading ==
    /\ imu' = resetHeading(imu)
    /\ imuLog' = [op |-> "resetHeading", arg |-> 0]

-----------------------------------------------------------------------------
(* SpecOffset: a PerimeterOffset generating from a PerimeterStorage *)

\* a square of 10 m at the origin, wound counter-clockwise
SquareCCW == <<Pt(0, 0), Pt(10000, 0), Pt(10000, 10000), Pt(0, 10000)>>

\* the same square wound clockwise
SquareCW == <<Pt(0, 0), Pt(0, 10000), Pt(10000, 10000), Pt(10000, 0)>>

\* perimeters loaded into the storage: the squares, and one of too few
\* points to offset
OffsetPerimeters == {SquareCCW, SquareCW, <<Pt(0, 0), Pt(10000, 0)>>}

\* offsets handed to generateInwardOffset
OffsetDistances == {-1, 0, 250}

\* a caller's generateInwardOffset(offset_mm) in a build that gives
\* 1000 * 1000 the value million
OGenerate(offset_mm, million) ==
    /\ \E r \in {generateInwardOffset(offs, perim, offset_mm, million)} :
          /\ offs' = r.o
          /\ offLog' = [op |-> "generate", offset |-> offset_mm,
                        count |-> r.count]
    /\ UNCHANGED perimVars

\* a caller's loadFromArray on the storage the generator reads
OLoad(points) ==
    /\ PLoad(points)
    /\ offLog' = [offLog EXCEPT !.op = "load"]
    /\ UNCHANGED offs

-----------------------------------------------------------------------------
(* Motor drivers.  L298 is a value m = [speed, pwmVal, in1, in2, pwmOut] of *)
(* the members _speed and _pwmVal and the levels last written to the pins.  *)
(* HighPowerHBridgeMotor is a value h = [currentSpeed, a1, a2, pwm]; its    *)
(* methods are the sequences of the writes they make, in program order, so  *)
(* that the pins can be observed between two writes.  VirtualMotor is the   *)
(* Motor value of the Wheel section.                                        *)

\* L298::L298(pinPWM, pinIN1, pinIN2) with setPins
L298Init == [speed |-> 0, pwmVal |-> 0, in1 |-> 0, in2 |-> 0, pwmOut |-> 0]

\* L298::getSpeed
L298getSpeed(m) == m.pwmVal

\* L298::stop
L298stop(m) == [m EXCEPT !.in1 = 0, !.in2 = 0, !.pwmOut = 255]

\* L298::move
L298move(m, speed) ==
    LET S == Constrain(speed, -MOTOR_SPEED_MAX, MOTOR_SPEED_MAX)
        pwm == ToUnsigned(Shr(Abs(S), 2), 8)
    IN  IF S = 0 THEN L298stop([m EXCEPT !.speed = S])
        ELSE [m EXCEPT !.speed = S,
                       !.in1 = IF S >= 0 THEN 1 ELSE 0,
                       !.in2 = IF S >= 0 THEN 0 ELSE 1,
                       !.pwmVal = pwm, !.pwmOut = pwm]

\* L298::reset
L298reset(m) == [L298stop(m) EXCEPT !.speed = 0, !.pwmVal = 0]

\* VirtualMotor::VirtualMotor
VirtualInit == [cmd |-> "none", arg |-> 0, speed |-> 0]

\* VirtualMotor::getSpeed
VirtualgetSpeed(m) == m.speed

\* one write of the H-bridge driver: to a pin or to _currentSpeed
Write(to, val) == [to |-> to, val |-> val]

\* HighPowerHBridgeMotor::HighPowerHBridgeMotor
HBridgeInit == [currentSpeed |-> 0, a1 |-> 0, a2 |-> 0, pwm |-> 0]

\* the effect of one write on the driver and its pins
HBridgeWrite(h, w) ==
    CASE w.to = "A1" -> [h EXCEPT !.a1 = w.val]
      [] w.to = "A2" -> [h EXCEPT !.a2 = w.val]
      [] w.to = "PWM" -> [h EXCEPT !.pwm = w.val]
      [] w.to = "speed" -> [h EXCEPT !.currentSpeed = w.val]

\* HighPowerHBridgeMotor::setDirection: A1 is written before A2
setDirection(speed) ==
    IF speed > 0 THEN <<Write("A1", 1), Write("A2", 0)>>
    ELSE IF speed < 0 THEN <<Write("A1", 0), Write("A2", 1)>>
    ELSE <<Write("A1", 0), Write("A2", 0)>>

\* HighPowerHBridgeMotor::move
HBridgemove(s) ==
    LET speed == Constrain(s, -MOTOR_SPEED_MAX, MOTOR_SPEED_MAX)
    IN  <<Write("speed", speed)>> \o setDirection(speed)
           \o <<Write("PWM", ToUnsigned(Shr(Abs(speed), 2), 8))>>

\* HighPowerHBridgeMotor::stop
HBridgestop ==
    <<Write("A1", 0), Write("A2", 0), Write("PWM", 0), Write("speed", 0)>>

\* HighPowerHBridgeMotor::reset
HBridgereset == HBridgestop

\* HighPowerHBridgeMotor::getSpeed
HBridgegetSpeed(h) == h.currentSpeed

-----------------------------------------------------------------------------
(* SpecMotor: the three motor drivers and their callers *)

\* speeds handed to move(): beyond the range, at its ends, inside it and
\* below one PWM step
MotorSpeeds == {-2000, -1023, -500, 0, 3, 500, 2000}

MotorCalls == {"move", "stop", "reset"}

NoMotLog == [drv |-> "none", op |-> "none", arg |-> 0]

InitMotor ==
    /\ l298 = L298Init
    /\ vmotor = VirtualInit
    /\ hbridge = HBridgeInit
    /\ hbPend = <<>>
    /\ motLog = NoMotLog

\* a call on the L298 driver
L298Call(op, s) ==
    /\ hbPend = <<>>
    /\ l298' = CASE op = "move" -> L298move(l298, s)
                 [] op = "stop" -> L298stop(l298)
                 [] op = "reset" -> L298reset(l298)
    /\ motLog' = [drv |-> "L298", op |-> op, arg |-> s]
    /\ UNCHANGED <<vmotor, hbridge, hbPend>>

\* a call on the virtual driver
VirtualCall(op, s) ==
    /\ hbPend = <<>>
    /\ vmotor' = CASE op = "move" -> MotorMove(s)
                   [] op = "stop" -> MotorStop
                   [] op = "reset" -> MotorReset
    /\ motLog' = [drv |-> "Virtual", op |-> op, arg |-> s]
    /\ UNCHANGED <<l298, hbridge, hbPend>>

\* a call on the H-bridge driver begins: its writes are pending
HBridgeCall(op, s) ==
    /\ hbPend = <<>>
    /\ hbPend' = CASE op = "move" -> HBridgemove(s)
                   [] op = "stop" -> HBridgestop
                   [] op = "reset" -> HBridgereset
    /\ motLog' = [drv |-> "HBridge", op |-> op, arg |-> s]
    /\ UNCHANGED <<l298, vmotor, hbridge>>

\* the next write of the H-bridge call in progress
HBridgeStep ==
    /\ hbPend # <<>>
    /\ hbridge' = HBridgeWrite(hbridge, Head(hbPend))
    /\ hbPend' = Tail(hbPend)
    /\ UNCHANGED <<l298, vmotor, motLog>>

-----------------------------------------------------------------------------
(* Specifications *)

InitOffset ==
    /\ offs = OffsetInit
    /\ offLog = NoOffLog

InitCalc ==
    /\ imuLog = NoImuLog
    /\ calc = NoCalc

InitAll ==
    /\ InitWheels /\ InitQueue /\ qProps = 0 /\ InitSeq /\ InitLF /\ InitMM
    /\ InitSonar /\ InitPerim /\ InitMotor /\ InitMower /\ InitOffset
    /\ InitCalc

InitAnyQueue ==
    /\ InitWheels /\ InitQueue /\ qProps \in {0, 1} /\ InitSeq /\ InitLF /\ InitMM
    /\ InitSonar /\ InitPerim /\ InitMotor /\ InitMower /\ InitOffset
    /\ InitCalc

OnlyWheels ==
    UNCHANGED <<queueVars, seqVars, lfVars, mmVars, sonarVars, perimVars, motVars, mowerVars,
                offsetVars, calcVars>>

OnlyQueue ==
    UNCHANGED <<wheelVars, seqVars, lfVars, mmVars, sonarVars, perimVars, motVars, mowerVars,
                offsetVars, calcVars>>

OnlySeq ==
    UNCHANGED <<queueVars, lfVars, mmVars, sonarVars, perimVars, motVars, mowerVars,
                offsetVars, calcVars>>

OnlyLF ==
    UNCHANGED <<queueVars, seqVars, mmVars, sonarVars, perimVars, motVars, mowerVars,
                offsetVars, calcVars>>

OnlyMM == UNCHANGED <<queueVars, sonarVars, perimVars, motVars, mowerVars,
                offsetVars, calcVars>>

OnlyPerim ==
    UNCHANGED <<wheelVars, queueVars, seqVars, lfVars, mmVars, sonarVars,
                motVars, mowerVars, offsetVars, calcVars>>

OnlyMath ==
    UNCHANGED <<wheelVars, queueVars, seqVars, lfVars, mmVars, sonarVars,
                perimVars, motVars, mowerVars, offsetVars>>

OnlyIMU ==
    UNCHANGED <<wheelVars, queueVars, seqVars, lfTask, lf, gps, lfLog, mmVars,
                sonarVars, perimVars, motVars, mowerVars, offsetVars, calc>>

OnlyOffset ==
    UNCHANGED <<wheelVars, queueVars, seqVars, lfVars, mmVars, sonarVars,
                motVars, mowerVars, calcVars>>

OnlyMotor ==
    UNCHANGED <<wheelVars, queueVars, seqVars, lfVars, mmVars, sonarVars,
                perimVars, mowerVars, offsetVars, calcVars>>

OnlySonar ==
    UNCHANGED <<wheelVars, seqVars, lfVars, mmVars, perimVars, motVars, mowerVars,
                offsetVars, calcVars>>

NextWheel ==
    \/ \E t \in TargetSpeeds, n \in 2..MaxIter : WSet(t, n) /\ OnlyWheels
    \/ WEmit /\ OnlyWheels
    \/ WEmitTarget /\ OnlyWheels
    \/ WStop /\ OnlyWheels
    \/ WReset /\ OnlyWheels

SpecWheel == InitAll /\ [][NextWheel]_vars

NextDrive ==
    \/ \E l \in DriveSpeeds, r \in DriveSpeeds, ms \in Durations :
          DSetTarget(l, r, ms) /\ OnlyWheels
    \/ DPass /\ OnlyWheels
    \/ DDisable /\ OnlyWheels
    \/ DStopWheels /\ OnlyWheels

SpecDrive == InitAll /\ [][NextDrive]_vars

\* the callers of the DriveUnit with ramp durations of either sign
NextDuration ==
    \/ \E l \in DriveSpeeds, r \in DriveSpeeds, ms \in AllDurations :
          DSetTarget(l, r, ms) /\ OnlyWheels
    \/ DDisable /\ OnlyWheels
    \/ DStopWheels /\ OnlyWheels

SpecDuration == InitAll /\ [][NextDuration]_vars

NextQueue ==
    \/ QPush /\ OnlyQueue
    \/ QPull /\ OnlyQueue

SpecQueue == InitAnyQueue /\ [][NextQueue]_vars

NextSeq ==
    \/ \E cm \in Selectors : SeqSetPattern(cm) /\ OnlySeq
    \/ SeqPass /\ OnlySeq
    \/ SeqEnable /\ OnlySeq
    \/ SeqDisable /\ OnlySeq

SpecSeq == InitAll /\ [][NextSeq]_vars

NextLF ==
    \/ \E l \in Lines : LFSetLine(l) /\ OnlyLF
    \/ \E p \in Positions : GpsFix(p) /\ OnlyLF
    \/ \E h \in Headings : ImuHeading(h) /\ OnlyLF
    \/ LFEnable /\ OnlyLF
    \/ LFDisable /\ OnlyLF
    \/ LFReset /\ OnlyLF
    \/ LFPass /\ OnlyLF

SpecLF == InitAll /\ [][NextLF]_vars

NextSteer ==
    \/ \E l \in Lines : LFSetLine(l) /\ Tuning /\ OnlyLF
    \/ \E p \in Positions : GpsFix(p) /\ Tuning /\ OnlyLF
    \/ \E h \in Headings : ImuHeading(h) /\ Tuning /\ OnlyLF
    \/ \E k \in GainPairs : LFSetGains(k) /\ OnlyLF
    \/ \E s \in BaseSpeeds : LFSetBaseSpeed(s) /\ OnlyLF
    \/ LFEnable /\ OnlyLF
    \/ LFPassUpTo(MaxSteers) /\ OnlyLF

SpecSteer == InitAll /\ [][NextSteer]_vars

NextMM ==
    \/ \E m \in Modes : MMSwitchMode(m) /\ UNCHANGED mmCalls /\ OnlyMM
    \/ MMEmergencyStop /\ UNCHANGED mmCalls /\ OnlyMM
    \/ \E l \in Lines : LFSetLine(l) /\ MMIdle /\ UNCHANGED seqVars /\ OnlyMM
    \/ LFPass /\ MMIdle /\ UNCHANGED seqVars /\ OnlyMM

SpecMM == InitAll /\ [][NextMM]_vars

NextMotion ==
    \/ \E m \in MotionModes : MMSwitchMode(m) /\ CountedCall /\ OnlyMM
    \/ MMEmergencyStop /\ CountedCall /\ OnlyMM
    \/ \E cm \in MotionPatterns : MMSetPattern(cm) /\ OnlyMM
    \/ \E l \in Lines : MMSetLine(l) /\ OnlyMM
    \/ MMSeqPass /\ OnlyMM
    \/ MMLinePass /\ OnlyMM

SpecMotion == InitAll /\ [][NextMotion]_vars

NextSonar ==
    \/ \E e \in Edges(SON) : SonEnable(e) /\ OnlySonar
    \/ SonStop /\ OnlySonar
    \/ SonRise /\ OnlySonar
    \/ \E w \in Widths : SonFall(w) /\ OnlySonar
    \/ \E e \in Edges(SON) : SonExhausted(e) /\ OnlySonar
    \/ SonTick /\ OnlySonar
    \/ \E w \in Widths : SonTickRaced(w) /\ OnlySonar
    \/ SonPull /\ OnlySonar

SpecSonar == InitAll /\ [][NextSonar]_vars

\* the sonar left to the scheduler: a caller enables the task once, and from
\* then on only the echo pin, the scheduler and the consumer of the queue act
NextSonarLive ==
    \/ \E e \in Edges(SON) : ~sonTask.enabled /\ SonEnable(e) /\ OnlySonar
    \/ SonRise /\ OnlySonar
    \/ \E w \in Widths : SonFall(w) /\ OnlySonar
    \/ \E e \in Edges(SON) : SonExhausted(e) /\ OnlySonar
    \/ SonTick /\ OnlySonar
    \/ \E w \in Widths : SonTickRaced(w) /\ OnlySonar
    \/ SonPull /\ OnlySonar

\* Scheduler::execute runs in the main loop for ever: a task that stays due
\* is ticked, and one whose iterations stay used up is passed over
FairSonar ==
    /\ WF_vars(SonTick /\ OnlySonar)
    /\ WF_vars(\E e \in Edges(SON) : SonExhausted(e) /\ OnlySonar)

SpecSonarLive == InitAll /\ [][NextSonarLive]_vars /\ FairSonar

NextPerim ==
    \/ \E pt \in Waypoints : PAdd(pt) /\ OnlyPerim
    \/ \E points \in WaypointLists : PLoad(points) /\ OnlyPerim
    \/ PClear /\ OnlyPerim
    \/ PBounds /\ OnlyPerim

SpecPerim == InitAll /\ [][NextPerim]_vars

NextMath ==
    \/ \E a \in TrigAngles : MathSinCos(a) /\ OnlyMath
    \/ \E n \in SqrtInputs : MathIntegerSqrt(n) /\ OnlyMath
    \/ MathReturn /\ OnlyMath

SpecMath == InitAll /\ [][NextMath]_vars

NextIMU ==
    \/ IBegin /\ OnlyIMU
    \/ \E gyroZ \in GyroReadings, deltaTimeMs \in UpdateGaps :
          IUpdate(gyroZ, deltaTimeMs) /\ OnlyIMU
    \/ \E h \in HeadingArgs : ISetHeading(h) /\ OnlyIMU
    \/ IResetHeading /\ OnlyIMU

SpecIMU == InitAll /\ [][NextIMU]_vars

NextOffset ==
    \/ \E points \in OffsetPerimeters : OLoad(points) /\ OnlyOffset
    \/ \E offset_mm \in OffsetDistances, million \in Millions :
          OGenerate(offset_mm, million) /\ OnlyOffset

SpecOffset == InitAll /\ [][NextOffset]_vars

NextMotor ==
    \/ \E op \in MotorCalls, s \in MotorSpeeds : L298Call(op, s) /\ OnlyMotor
    \/ \E op \in MotorCalls, s \in MotorSpeeds :
          VirtualCall(op, s) /\ OnlyMotor
    \/ \E op \in MotorCalls, s \in MotorSpeeds :
          HBridgeCall(op, s) /\ OnlyMotor
    \/ HBridgeStep /\ OnlyMotor

SpecMotor == InitAll /\ [][NextMotor]_vars

OnlyMower ==
    UNCHANGED <<queueVars, seqVars, mmVars, sonarVars, perimVars, motVars,
                offsetVars, calcVars>>

NextMower ==
    \/ \E waypoints \in MowerPerimeters : MSetPerimeter(waypoints) /\ OnlyMower
    \/ \E laps \in LapCounts : MSetPerimeterLaps(laps) /\ OnlyMower
    \/ MConfigure /\ OnlyMower
    \/ \E million \in BuildMillions : MStartMowing(million) /\ OnlyMower
    \/ \E million \in BuildMillions : MUpdate(million) /\ OnlyMower
    \/ \E atEnd \in BOOLEAN : MGpsFix(atEnd) /\ OnlyMower
    \/ MTick /\ OnlyMower

SpecMower == InitAll /\ [][NextMower]_vars

\* update() would change the mower or what it drives
UpdateMoves ==
    \E million \in BuildMillions :
       \E x \in {update(X, million)} :
          x.m # mower \/ x.t # lfTask \/ x.f # lf \/ x.du # DU

\* the LineFollower task is due and its tick would find the line completed
LineCanComplete ==
    /\ TaskDue(lfTask)
    /\ ~LineCallback(lf, DU, gps, imu, lfTask.interval).cont

\* the main loop polls update() for ever, and every line handed to the line
\* follower is completed: the GPS comes to report the end of the line, and
\* the scheduler's pass over the LineFollower task finds it there.  The first
\* conjunct is weak fairness of MUpdate and the third strong fairness of
\* MTick, each written out with the condition under which the step matters
\* (a condition that implies the action is enabled) as a state predicate.
FairMower ==
    /\ []<>(~UpdateMoves) \/ []<><<mowLog'.op = "update">>_vars
    /\ WF_vars(MGpsFix(TRUE) /\ OnlyMower)
    /\ <>[](~LineCanComplete) \/ []<><<mowLog'.op = "tick">>_vars

\* the mowing run in which every line is driven to its end: the GPS reports
\* the position each new line starts from (the end of the line before it)
\* and then the end of the line being followed
NextMowerLive ==
    \/ \E waypoints \in MowerPerimeters : MSetPerimeter(waypoints) /\ OnlyMower
    \/ \E laps \in LapCounts : MSetPerimeterLaps(laps) /\ OnlyMower
    \/ MConfigure /\ OnlyMower
    \/ \E million \in BuildMillions : MStartMowing(million) /\ OnlyMower
    \/ \E million \in BuildMillions : MUpdate(million) /\ OnlyMower
    \/ MGpsFix(TRUE) /\ OnlyMower
    \/ MTick /\ OnlyMower

SpecMowerLive == InitAll /\ [][NextMowerLive]_vars /\ FairMower

-----------------------------------------------------------------------------
(* Claims *)

\* C3: after setWheelSpeed(t, n) from any current speed c, with t in
\* [-1023, 1023] and n >= 2, exactly n calls of EmitNewSpeed bring the current
\* speed to exactly t, and no speed produced on the way lies outside the
\* closed interval between c and t.
C3_RampReachesTargetExactly ==
    ramp.active =>
        /\ Between(ramp.from, leftWheel.TargetSpeed, leftWheel.CurSpeed)
        /\ ramp.ticks = ramp.n => leftWheel.CurSpeed = leftWheel.TargetSpeed

\* the wheel holds its target and the motor was last told move(target)
AtTarget(w) ==
    /\ w.CurSpeed = w.TargetSpeed
    /\ w.motor.cmd = "move"
    /\ w.motor.arg = w.TargetSpeed

\* C4: whenever the DriveUnit task becomes disabled (iterations used up, or
\* disabled in the middle of a ramp), each wheel's current speed equals its
\* target speed and the last value commanded to each motor is that target.
C4_DisableSnapsToTarget ==
    [][(driveTask.enabled /\ ~driveTask'.enabled)
          => (AtTarget(leftWheel') /\ AtTarget(rightWheel'))]_vars

\* C4 witness: a disable in the middle of a ramp snapped the left wheel from
\* an intermediate speed to a non-zero target
C4_Witness ==
    /\ driveHist.hook = "OnDisable"
    /\ ~driveTask.enabled
    /\ driveTask.iterations > 0
    /\ leftWheel.TargetSpeed # 0
    /\ driveHist.preL # leftWheel.TargetSpeed
    /\ AtTarget(leftWheel)

\* C5: with the overwrite bit clear, a push on a full queue returns false and
\* leaves head, count and every stored element unchanged, so count never
\* exceeds the capacity.
C5_FullPushRejected ==
    qProps = 0 =>
        /\ qCount <= nofItems
        /\ (qLast.op = "push" /\ qLast.before.count = nofItems)
              => (~qLast.ok /\ Q = qLast.before)

\* C5 witness: a push on a full queue was refused
C5_Witness ==
    /\ qProps = 0
    /\ qLast.op = "push"
    /\ qLast.before.count = nofItems
    /\ ~qLast.ok
    /\ qCount = nofItems

\* the last n elements of a sequence
LastN(seq, n) == SubSeq(seq, Len(seq) - n + 1, Len(seq))

\* C6: with the overwrite bit set every push succeeds, and the pulls that
\* follow the pushes yield the most recently pushed elements (at most
\* capacity of them), oldest first.
C6_OverwriteKeepsNewest ==
    qProps = 1 =>
        /\ qLast.op = "push" => qLast.ok
        /\ qCount + Len(qPulled) <= nofItems
        /\ qCount + Len(qPulled) <= Len(qPushed)
        /\ qPulled = SubSeq(LastN(qPushed, qCount + Len(qPulled)),
                            1, Len(qPulled))

\* C6 witness: more than capacity elements were pushed and the queue was
\* then drained by capacity pulls
C6_Witness ==
    /\ qProps = 1
    /\ Len(qPushed) > nofItems
    /\ Len(qPulled) = nofItems
    /\ qCount = 0

\* the steps of a table before its sentinel
NSteps(name) == Len(TableOf(name)) - 1

\* C25: after any pushes and pulls, with the overwrite bit clear or set,
\* 0 <= count <= nofItems and 0 <= head < nofItems; and a pull on an empty
\* queue returns false and leaves head, count, the stored data and the
\* caller's output argument as they were.
C25_QueueIndicesInRange ==
    /\ 0 <= qCount /\ qCount <= nofItems
    /\ 0 <= qHead /\ qHead < nofItems
    /\ (qLast.op = "pull" /\ qLast.before.count = 0) =>
           /\ ~qLast.ok
           /\ qLast.val = 0
           /\ Q = qLast.before

\* a pull found the queue empty after the ring had wrapped with the
\* overwrite bit set
C25_Witness ==
    /\ qLast.op = "pull"
    /\ qLast.before.count = 0
    /\ ~qLast.ok
    /\ qProps = 1
    /\ Len(qPushed) > nofItems

\* C26 as stated: once latched, the completion flag of the LineFollower
\* becomes false only through reset() or the setting of a new line.
C26_ClearedOnlyByResetOrNewLine ==
    [][(lf.lineComplete /\ ~lf'.lineComplete) =>
           lfLog'.op \in {"reset", "setLine"}]_vars

\* C26: once latched, the completion flag of the LineFollower stays true
\* across sensor updates, ticks and disable() and becomes false only through
\* reset(), the setting of a new line, or an enable() of the task; an
\* enable() with a line set always leaves the flag false.
C26_ClearedByResetNewLineOrEnable ==
    [][/\ (lf.lineComplete /\ ~lf'.lineComplete) =>
              lfLog'.op \in {"reset", "setLine", "enable"}
       /\ (lfLog'.op = "enable" /\ lf.lineSet /\ lf.lineComplete) =>
              ~lf'.lineComplete]_vars

\* the latched flag has outlived a sensor update that put the robot away
\* from the end of the line
C26_Witness ==
    /\ lf.lineComplete
    /\ lfLog.op = "sensor"
    /\ ~lfTask.enabled
    /\ gps.fix
    /\ distanceTo(gps.pos, lf.endPoint) >= lf.completionThreshold

\* C27: when setTargetSpeed has enabled the DriveUnit task, the on-enable
\* hook has emitted each wheel's speed without advancing the ramp: each
\* wheel's speed is the one it had before setTargetSpeed, and its accumulator
\* is that speed in accumulator units.
C27_OnEnableEmitsUnrampedSpeed ==
    driveHist.hook = "OnEnable" =>
        /\ leftWheel.CurSpeed = driveHist.preL
        /\ rightWheel.CurSpeed = driveHist.preR
        /\ leftWheel.cur_acc = driveHist.preL * SCALE
        /\ rightWheel.cur_acc = driveHist.preR * SCALE

\* C28: whatever the position, the heading, the line and the gains, and for
\* every base speed in -MaxSpeed..MaxSpeed, both wheel targets a tick of the
\* LineFollower hands to the drive unit lie in -MaxSpeed..MaxSpeed.
C28_WheelTargetsInRange ==
    (lfLog.op = "tick" /\ lfLog.steer) =>
        /\ -MaxSpeed <= lfLog.left /\ lfLog.left <= MaxSpeed
        /\ -MaxSpeed <= lfLog.right /\ lfLog.right <= MaxSpeed
        /\ leftWheel.TargetSpeed = lfLog.left
        /\ rightWheel.TargetSpeed = lfLog.right

\* a tick steered at full base speed with the correction at its limit: one
\* wheel target was cut back to MaxSpeed
C28_Witness ==
    /\ lfLog.op = "tick"
    /\ lfLog.steer
    /\ lf.baseSpeed = MaxSpeed
    /\ lf.K_crossTrack = 32767
    /\ lfLog.left = MaxSpeed
    /\ lfLog.right = MaxSpeed - CDiv(MaxSpeed, 2)

C30_TurnEndsAtNextStripeStart ==
    [][(mower.state = EXECUTING_TURN /\ mower'.state = MOWING_STRIPE) =>
           lf'.startPoint = lf.endPoint]_vars

\* C31: after emergencyStop() or switchMode(MOTION_IDLE), whichever
\* controller was active before, and until the next call on the manager,
\* the target last commanded to the drive unit is (0, 0): the call left it
\* so and no tick of a task changed it.
C31_HaltedMeansZeroTarget ==
    mmHist.halted =>
        /\ leftWheel.TargetSpeed = 0
        /\ rightWheel.TargetSpeed = 0

\* C32: whatever the callers of the manager and of the controllers'
\* pass-through methods do and whenever the tasks tick, the sequencer task and
\* the LineFollower task are never both enabled, and the sequencer task is
\* enabled only while the pattern controller is the active controller.
C32_OneTaskRunning ==
    /\ ~(seqTask.enabled /\ lfTask.enabled)
    /\ seqTask.enabled => mmActive = "pattern"

\* C33: whenever AllMovements::Callback is about to run (the sequencer task
\* is enabled and due), the step cursor points at an entry of one of the
\* pattern tables: it is not null, not a pointer to no table, and not past
\* the table's sentinel.
C33_CursorInTableAtCallback ==
    TaskDue(seqTask) =>
        /\ IsTablePtr(currMove)
        /\ currMove.idx \in 1..Len(TableOf(currMove.tab))

\* C34: whenever SonarDistance is non-zero, no edge handler is attached to
\* the echo pin and the value is the echo of the most recently triggered
\* cycle, whichever way the edge interrupts fall between the statements of
\* Measure(), Callback(), OnEnable() and Stop().
C34_MeasurementDetachedAndCurrent ==
    son.dist # 0 => /\ son.irq = "none"
                    /\ ~sonLog.stale

\* C35: from a setTargetSpeed call to the task's next disable, the speed
\* last passed to Motor::move for a wheel (by the on-enable hook, a tick
\* callback or the on-disable snap) lies between the speed the wheel had when
\* setTargetSpeed was called and its target.
C35_MotorNeverPastTarget ==
    driveHist.ramping =>
        /\ leftWheel.motor.cmd = "move" =>
               Between(driveHist.fromL, leftWheel.TargetSpeed,
                       leftWheel.motor.arg)
        /\ rightWheel.motor.cmd = "move" =>
               Between(driveHist.fromR, rightWheel.TargetSpeed,
                       rightWheel.motor.arg)

\* C36: when the mower has reached COMPLETE, the number of stripe lines it
\* commanded to the line follower since startMowing equals totalStripes,
\* zero stripes included.
C36_StripeLinesEqualTotal ==
    mower.state = COMPLETE => mowLog.stripes = mower.totalStripes

\* C37: when update() is polled for ever and every commanded line comes to
\* report completion, a mower that startMowing() has started reaches COMPLETE,
\* and once in COMPLETE it stays there.
C37_MowingCompletes ==
    /\ (mower.state = PERIMETER_LAPS) ~> (mower.state = COMPLETE)
    /\ [][mower.state = COMPLETE => mower'.state = COMPLETE]_vars

\* the mower has completed a run of two perimeter laps and three stripes
C37_Witness ==
    /\ mower.state = COMPLETE
    /\ mower.currentLap >= 2
    /\ mowLog.stripes = 3

\* the sonar task is enabled and waits for the echo of its trigger pulse:
\* no edge has arrived since the pulse and there is no measurement
AwaitingEcho ==
    /\ sonTask.enabled
    /\ son.irq = "rising"
    /\ son.dist = 0

\* C38: while the echo of a trigger pulse has not arrived, a tick callback
\* pushes nothing to the queue; and once a tick has found nothing, either an
\* edge arrives after all or the task, left to the scheduler, comes to send a
\* fresh trigger pulse through Measure().
C38_LostEchoRetriggers ==
    /\ [][(AwaitingEcho /\ sonLog'.op = "tick") =>
              (~sonLog'.found /\ qCount' = qCount /\ qData' = qData)]_vars
    /\ (AwaitingEcho /\ sonLog.op = "tick") ~>
           (son.irq # "rising" \/ (sonLog.op = "restart" /\ AwaitingEcho))

\* the task has sent a fresh trigger pulse on its own though no edge of an
\* echo ever arrived
C38_Witness ==
    /\ sonLog.op = "restart"
    /\ sonLog.trig
    /\ ~son.stamped
    /\ AwaitingEcho

\* C39 as stated: when switchMode(MOTION_PATTERN) or
\* switchMode(MOTION_LINE_FOLLOWING) has returned, the task of the selected
\* controller is enabled and MotionManager::isActive() is true, also when the
\* line follower has no line set.
C39_SwitchModeStartsTask ==
    (mmHist.op = "switchMode"
        /\ mmState \in {MOTION_PATTERN, MOTION_LINE_FOLLOWING}) =>
        /\ IF mmState = MOTION_PATTERN THEN seqTask.enabled
           ELSE lfTask.enabled
        /\ ManagerIsActive(W)

\* C39 amended: when switchMode(MOTION_PATTERN) has returned, the sequencer
\* task is enabled and MotionManager::isActive() is true; when
\* switchMode(MOTION_LINE_FOLLOWING) has returned, the LineFollower task is
\* enabled and isActive() is true if a line is set, and the task is disabled
\* and isActive() is false if none is.
C39_SwitchModeStartsTaskIfLineSet ==
    mmHist.op = "switchMode" =>
        /\ mmState = MOTION_PATTERN =>
               (seqTask.enabled /\ ManagerIsActive(W))
        /\ mmState = MOTION_LINE_FOLLOWING =>
               /\ lfTask.enabled <=> lf.lineSet
               /\ ManagerIsActive(W) <=> lf.lineSet

\* switchMode(MOTION_LINE_FOLLOWING) has returned with no line set: the
\* adapter's flag is set, the task is disabled and isActive() is false
C39_Witness ==
    /\ mmHist.op = "switchMode"
    /\ mmState = MOTION_LINE_FOLLOWING
    /\ mmActive = "line"
    /\ ~lf.lineSet
    /\ ctl["line"].isActive
    /\ ~lfTask.enabled
    /\ ~ManagerIsActive(W)

\* C40: on a queue with the overwrite bit clear, after any sequence of pushes
\* and pulls the values the successful pulls handed out are, in order, the
\* values of the successful pushes except the count that are still stored:
\* nothing is lost, duplicated or reordered, however often head wraps.
C40_FifoExactlyOnce ==
    qProps = 0 =>
        /\ qCount <= Len(qPushed)
        /\ qLast.out = SubSeq(qPushed, 1, Len(qPushed) - qCount)

\* head has wrapped around twice and every value pushed has been pulled
C40_Witness ==
    /\ qProps = 0
    /\ Len(qPushed) >= 2 * nofItems
    /\ Len(qLast.out) = Len(qPushed)
    /\ qCount = 0

\* C7: for every pattern table, the tick after the one that delivered the
\* table's last step before the sentinel moves the cursor to the Continous
\* table and delivers the first step of Continous, no setCurrentPattern
\* having been called in between; CurrMotion still names the pattern set.
C7_FallbackToContinous ==
    (seqLog.pat # "none" /\ Len(seqLog.steps) > NSteps(seqLog.pat)) =>
        LET n == NSteps(seqLog.pat)
            k == Len(seqLog.steps)
        IN  /\ seqLog.steps[n + 1] = Continous[1]
            /\ k = n + 1 => currMove = MovePtr("Continous", 2)
            /\ \A j \in (n + 1)..k :
                  seqLog.steps[j] =
                      Continous[((j - n - 1) % NSteps("Continous")) + 1]

\* C7 witness: Circle was set, its four steps were delivered and the next
\* tick delivered the first step of Continous
C7_Witness ==
    /\ seqLog.pat = "Circle"
    /\ CurrMotion = CIRCLE
    /\ seqLog.op = "tick"
    /\ Len(seqLog.steps) = NSteps("Circle") + 1
    /\ seqLog.steps[Len(seqLog.steps)] = Continous[1]
    /\ leftWheel.TargetSpeed = Speed70

\* C8: after setCurrentPattern(p) the ticks deliver the steps of table p to
\* the speed callback in table order, each once; after each tick the task is
\* enabled with a delay equal to the delivered step's duration; no entry of
\* duration 0 is ever delivered.
C8_StepsInOrder ==
    /\ \A i \in 1..Len(seqLog.steps) : seqLog.steps[i].mSec # 0
    /\ seqLog.pat # "none" =>
          \A i \in 1..Min(Len(seqLog.steps), NSteps(seqLog.pat)) :
              seqLog.steps[i] = TableOf(seqLog.pat)[i]
    /\ (seqLog.pat # "none" /\ seqLog.op = "tick") =>
          /\ seqTask.enabled
          /\ seqTask.iterations = 1
          /\ seqTask.delay = seqLog.steps[Len(seqLog.steps)].mSec
          /\ seqTask.interval = seqLog.steps[Len(seqLog.steps)].mSec

\* C8 witness: all five steps of ChargerBackout were delivered after it was
\* set, and the task waits for the last step's duration
C8_Witness ==
    /\ seqLog.pat = "ChargerBackout"
    /\ CurrMotion = CHARGER_BACKOUT
    /\ seqLog.op = "tick"
    /\ Len(seqLog.steps) = NSteps("ChargerBackout")
    /\ seqTask.delay = 802
    /\ leftWheel.TargetSpeed = Speed90

\* the position the last tick used lies within the completion threshold of
\* the end point of the line
WithinThreshold ==
    /\ lf.lineSet
    /\ distanceTo(lf.currentPosition, lf.endPoint) < lf.completionThreshold

\* C9: a tick of the LineFollower that finds the position within the
\* completion threshold of the end point, whatever the heading, latches
\* isComplete(), commands the drive unit to (0, 0) over 200 ms (three ramp
\* steps), sends no steering command and leaves the task stopped.
C9_CompletionStopsTask ==
    (lfLog.op = "tick" /\ WithinThreshold) =>
        /\ lf.lineComplete
        /\ ~lfLog.steer
        /\ leftWheel.TargetSpeed = 0
        /\ rightWheel.TargetSpeed = 0
        /\ driveTask.enabled
        /\ driveTask.setIter = CDiv(200, WheelUpdateRate)
        /\ ~lfTask.enabled

\* C9 witness: the robot was steering along the North line, reached a point
\* 141 mm from its end while heading east, and the tick stopped it
C9_Witness ==
    /\ lfLog.op = "tick"
    /\ lfLog.cmds = 2
    /\ lf.endPoint = North[2]
    /\ lf.currentPosition = Pt(100, 1900)
    /\ lf.currentHeading = 900
    /\ lf.lineComplete
    /\ driveHist.preL # 0
    /\ leftWheel.TargetSpeed = 0
    /\ ~lfTask.enabled

\* C11: an enable() of the LineFollower task while no line is set is
\* refused: OnEnable answers false, the task is left disabled and not due,
\* the LineFollower and the drive unit (wheels, ramp, task) are left as they
\* were; and no tick callback ever runs while no line is set.
C11_EnableWithoutLineRefused ==
    [][/\ (lfLog'.op = "enable" /\ ~lf.lineSet) =>
            /\ ~LineOnEnable(lf, gps, imu).accept
            /\ ~lfTask'.enabled
            /\ ~TaskDue(lfTask')
            /\ lf' = lf
            /\ UNCHANGED wheelVars
       /\ lfLog'.op = "tick" => lf.lineSet]_vars

\* C11 witness: with a GPS fix and a heading at hand but no line set, enable()
\* was called and the task is disabled
C11_Witness ==
    /\ lfLog.op = "enable"
    /\ ~lf.lineSet
    /\ gps.fix
    /\ imu.initialized
    /\ ~lfTask.enabled

\* C12: a tick callback of the sonar that finds no completed measurement
\* pushes nothing and starts no Measure(); one that finds a completed
\* measurement hands that measurement to push and starts a new Measure();
\* and every measurement the falling-edge handler completed is pushed exactly
\* once: none is discarded, none pushed twice, none pushed with another value.
C12_EachMeasurementPushedOnce ==
    /\ (sonLog.op = "tick" /\ ~sonLog.found) =>
           (sonLog.arg = 0 /\ ~sonLog.trig)
    /\ (sonLog.op = "tick" /\ sonLog.found) =>
           (sonLog.arg = sonLog.meas /\ sonLog.trig /\ son.irq = "rising")
    /\ ~sonLog.lost
    /\ ~sonLog.dup
    /\ ~sonLog.wrong

\* C13: after Stop() the sonar task is disabled, no handler is attached to
\* the echo pin and no trigger pulse was sent.
C13_StopLeavesSonarQuiet ==
    sonLog.op = "stop" =>
        /\ ~sonTask.enabled
        /\ son.irq = "none"
        /\ ~sonLog.trig

\* C14: a call of ParallelStripeMower::update() changes the mower only when
\* the line follower reports completion, and changes its state only along
\* PERIMETER_LAPS -> MOWING_STRIPE (the lap counter has reached the
\* configured laps, at stripe 0), MOWING_STRIPE -> EXECUTING_TURN (not the
\* last stripe), MOWING_STRIPE -> COMPLETE (the last stripe) and
\* EXECUTING_TURN -> MOWING_STRIPE (stripe index one more, direction
\* flipped); it never leaves IDLE or COMPLETE.
C14_UpdateFollowsEdges ==
    [][mowLog'.op = "update" =>
          /\ ~lf.lineComplete => mower' = mower
          /\ mower.state \in {IDLE, COMPLETE} => mower' = mower
          /\ mower'.state # mower.state =>
                \/ /\ mower.state = PERIMETER_LAPS
                   /\ mower'.state = MOWING_STRIPE
                   /\ mower'.currentLap = mower.currentLap + 1
                   /\ mower'.currentLap >= mower.perimeterLaps
                   /\ mower'.currentStripe = 0
                \/ /\ mower.state = MOWING_STRIPE
                   /\ mower'.state = EXECUTING_TURN
                   /\ mower.currentStripe < mower.totalStripes - 1
                   /\ mower'.currentStripe = mower.currentStripe
                \/ /\ mower.state = MOWING_STRIPE
                   /\ mower'.state = COMPLETE
                   /\ mower.currentStripe >= mower.totalStripes - 1
                \/ /\ mower.state = EXECUTING_TURN
                   /\ mower'.state = MOWING_STRIPE
                   /\ mower'.currentStripe = mower.currentStripe + 1
                   /\ mower'.movingRight = ~mower.movingRight]_vars

\* update() has finished a run of two laps and several stripes
C14_Witness ==
    /\ mowLog.op = "update"
    /\ mower.state = COMPLETE
    /\ mower.currentLap = 2
    /\ mower.currentStripe = 2
    /\ mower.totalStripes = 3
    /\ mower.movingRight

\* C23: for every angle a from 0 to 3599 tenths of a degree,
\* sin_int(a)^2 + cos_int(a)^2 is 1000^2 to within two per cent (a few units
\* on each of the two values), sin_int(900) is 1000 to within 10 and
\* sin_int(0) is 0 to within 10.
C23_SinCosOnUnitCircle ==
    calc.fn = "sincos" =>
        /\ Abs(calc.res[1] * calc.res[1] + calc.res[2] * calc.res[2]
                   - 1000 * 1000) <= 20000
        /\ calc.arg = 900 => Abs(calc.res[1] - 1000) <= 10
        /\ calc.arg = 0 => Abs(calc.res[1]) <= 10

\* C24: for n from 0 to 2^30, r = integerSqrt(n) is the floor of the square
\* root of n: r * r <= n < (r + 1) * (r + 1).
C24_IntegerSqrtIsFloor ==
    calc.fn = "integerSqrt" =>
        /\ calc.res[1] >= 0
        /\ calc.res[1] * calc.res[1] <= calc.arg
        /\ calc.arg < (calc.res[1] + 1) * (calc.res[1] + 1)

\* the root of the largest argument, 2^30, has been computed
C24_Witness ==
    /\ calc.fn = "integerSqrt"
    /\ calc.arg = Pow2(30)
    /\ calc.res = <<Pow2(15)>>

\* C22: whatever update(), setHeading(h) and resetHeading() calls were made,
\* the heading the IMU driver reports is at least 0 and below 3600.
C22_HeadingNormalized == imu.heading >= 0 /\ imu.heading < ANGLE_360

\* an update() has integrated a negative yaw rate, which the unsigned
\* product turned into a change that is not the rate times the time
C22_Witness ==
    /\ imuLog.op = "update"
    /\ imu.initialized
    /\ imuLog.arg < -3600

\* C21: generateInwardOffset(250) on the square wound counter-clockwise
\* returns 4, and each of its 4 waypoints lies from its corner on the
\* diagonal towards the centre of the square, 354 mm away to within a tenth
\* (250 mm along each axis, between 225 and 275).
C21_SquareOffsetInward ==
    LET centre == Pt(5000, 5000)
        Towards(from, to, d) ==
            IF to > from THEN d >= 225 /\ d <= 275
            ELSE -d >= 225 /\ -d <= 275
        Inward(corner, w) ==
            /\ Towards(corner.x, centre.x, w.x - corner.x)
            /\ Towards(corner.y, centre.y, w.y - corner.y)
    IN  (/\ offLog.op = "generate" /\ offLog.offset = 250
         /\ perimLog.pts = SquareCCW)
        => /\ offLog.count = 4
           /\ \A i \in 0..3 :
                  Inward(SquareCCW[i + 1], getOffsetWaypoint(offs, i))

\* C15: whatever the callers did, the storage reads back exactly the
\* waypoints it accepted: the count is their number, getWaypoint(i) is the
\* i-th of them for every i, getWaypoints copies the same points; and a
\* loadFromArray of a list within the capacity whose segments all fit
\* succeeds and accepts the whole list.
C15_RoundTripExact ==
    LET pts == perimLog.pts
        n == Len(pts)
        all == getWaypoints(perim, MAX_PERIMETER_WAYPOINTS)
    IN  /\ getCount(perim) = n
        /\ \A i \in 0..(n - 1) : getWaypoint(perim, i) = pts[i + 1]
        /\ all.count = n
        /\ \A i \in 0..(n - 1) : all.buffer[i] = pts[i + 1]
        /\ (/\ perimLog.op = "load"
            /\ Len(perimLog.input) <= MAX_PERIMETER_WAYPOINTS
            /\ AllFit(perimLog.input))
           => (perimLog.ok /\ pts = perimLog.input)

\* a list of three waypoints, each a full segment from the one before and
\* none at the coordinates' zero, has been loaded and is read back
C15_Witness ==
    /\ perimLog.op = "load" /\ perimLog.ok
    /\ Len(perimLog.input) = 3
    /\ perimLog.input[1] = Pt(65534, -65534)
    /\ getWaypoint(perim, 0) = Pt(65534, -65534)
    /\ getWaypoint(perim, 1) = Pt(32767, -32767)
    /\ getWaypoint(perim, 2) = Pt(0, 0)

\* C16: an addWaypoint whose offset from the last stored waypoint does not
\* fit 16 bits, or that finds the array full, returns failure and leaves the
\* count, the offsets, the start point and the last absolute point as they
\* were.
C16_RejectedAddLeavesStorage ==
    LET before == perimLog.before
        pt == perimLog.input[1]
        tooLong == /\ before.count > 0
                   /\ ~SegmentFits(getWaypoint(before, before.count - 1), pt)
        full == before.count >= MAX_PERIMETER_WAYPOINTS
    IN  (perimLog.op = "add" /\ (tooLong \/ full))
        => /\ ~perimLog.ok
           /\ getCount(perim) = getCount(before)
           /\ perim.waypoints = before.waypoints
           /\ perim.origin = before.origin
           /\ getWaypoint(perim, perim.count - 1)
                 = getWaypoint(before, before.count - 1)

\* a waypoint 40000 mm in x from the last one has been refused by a storage
\* that still had room
C16_Witness ==
    /\ perimLog.op = "add" /\ ~perimLog.ok
    /\ perimLog.input = <<Pt(40000, 0)>>
    /\ perimLog.before.count \in 1..(MAX_PERIMETER_WAYPOINTS - 1)
    /\ getWaypoint(perimLog.before, perimLog.before.count - 1) = Pt(0, 0)

\* C17: a loadFromArray that returns failure leaves the stored perimeter as
\* it was: the count and every getWaypoint(i) are those from before the call.
C17_FailedLoadKeepsPerimeter ==
    (perimLog.op = "load" /\ ~perimLog.ok)
    => /\ getCount(perim) = getCount(perimLog.before)
       /\ \A i \in 0..(getCount(perimLog.before) - 1) :
              getWaypoint(perim, i) = getWaypoint(perimLog.before, i)

\* C18: after setTargetSpeed(left, right, durationMs) the task's iteration
\* count is max(2, durationMs / 64), the division being that of integers,
\* and both wheels ramp in that many steps; a zero or negative duration
\* gives 2.
C18_IterationsFromDuration ==
    LET iterations == Max(2, CDiv(driveHist.ms, WheelUpdateRate))
        Ramp(w, pre) ==
            setWheelSpeed([w EXCEPT !.CurSpeed = pre], w.TargetSpeed,
                          iterations).step_acc
    IN  driveHist.hook = "OnEnable"
        => /\ driveTask.iterations = iterations
           /\ leftWheel.step_acc = Ramp(leftWheel, driveHist.preL)
           /\ rightWheel.step_acc = Ramp(rightWheel, driveHist.preR)
           /\ (driveHist.ms <= 0 => driveTask.iterations = 2)

\* the speed a driver reports
GetSpeedOf(drv) ==
    CASE drv = "L298" -> L298getSpeed(l298)
      [] drv = "Virtual" -> VirtualgetSpeed(vmotor)
      [] drv = "HBridge" -> HBridgegetSpeed(hbridge)

\* C19: once move(s) has returned, getSpeed() of the driver it was called on
\* is s clamped to [-1023, 1023], sign included, for each of the three
\* drivers.
C19_GetSpeedIsClampedSpeed ==
    (motLog.op = "move" /\ hbPend = <<>>)
    => GetSpeedOf(motLog.drv)
          = Constrain(motLog.arg, -MOTOR_SPEED_MAX, MOTOR_SPEED_MAX)

\* C20: the direction pins of the H-bridge are never both high, the moments
\* between two writes of one call included.
C20_DirectionPinsNeverBothHigh ==
    ~(hbridge.a1 = 1 /\ hbridge.a2 = 1)

\* the position lies to the left of the directed line
IsLeftOf(f) ==
    cross(PtSub(f.endPoint, f.startPoint),
          PtSub(f.currentPosition, f.startPoint)) > 0

\* the compass heading (tenths of a degree) of a line along an axis
LineHeading(f) ==
    LET d == PtSub(f.endPoint, f.startPoint)
    IN  IF d.x = 0 THEN (IF d.y > 0 THEN 0 ELSE 1800)
        ELSE (IF d.x > 0 THEN 900 ELSE 2700)

\* C10: whenever a tick steers with the robot to the left of the line and
\* its heading aligned with the line, the left wheel's target speed is
\* strictly lower than the right wheel's.
C10_LeftOfLineLeftSlower ==
    (lfLog.op = "tick" /\ lfLog.steer /\ IsLeftOf(lf)
        /\ lf.currentHeading = LineHeading(lf))
    => lfLog.left < lfLog.right

\* C1: under any sequence of switchMode and emergencyStop calls at most one
\* controller is started at any time; every start() found no controller
\* started and the controller started before it stopped exactly once since
\* its own start(); and whenever a controller is started it is the one
\* getActiveController() refers to.
C1_OneControllerStarted ==
    /\ Cardinality({c \in Controllers : mmHist.started[c]}) <= 1
    /\ mmHist.cleanStarts
    /\ \A c \in Controllers : mmHist.started[c] => mmActive = c
    /\ \A c \in Controllers : mmHist.stops[c] <= 1
    /\ \A c \in Controllers : ctl[c].isActive => mmActive = c

\* C1 witness: switchMode(MOTION_LINE_FOLLOWING) in pattern mode stopped the
\* pattern controller once and then started the line-follow controller,
\* whose task runs
C1_Witness ==
    /\ mmHist.op = "switchMode"
    /\ mmHist.prev = "pattern"
    /\ mmActive = "line"
    /\ mmHist.started["line"]
    /\ ~mmHist.started["pattern"]
    /\ mmHist.stops["pattern"] = 1
    /\ ~seqTask.enabled
    /\ lfTask.enabled

\* C2: when emergencyStop() returns, the controller that was active (if
\* any) has had stop() invoked, getActiveController() is null and
\* getCurrentState() is MOTION_EMERGENCY_STOP.
C2_EmergencyStopClears ==
    mmHist.op = "emergencyStop" =>
        /\ mmActive = "none"
        /\ mmState = MOTION_EMERGENCY_STOP
        /\ mmHist.prev # "none" =>
              /\ ~mmHist.started[mmHist.prev]
              /\ mmHist.stops[mmHist.prev] = 1
              /\ ~ctl[mmHist.prev].isActive
              /\ ctl[mmHist.prev].state = MOTION_IDLE
              /\ ~CtlIsActive(W, mmHist.prev)

\* C2 witness: emergencyStop() stopped the running line-follow controller,
\* whose task told the drive unit to stop
C2_Witness ==
    /\ mmHist.op = "emergencyStop"
    /\ mmHist.prev = "line"
    /\ mmState = MOTION_EMERGENCY_STOP
    /\ ~lfTask.enabled
    /\ driveHist.preL # 0
    /\ leftWheel.TargetSpeed = 0
    /\ driveTask.enabled

=============================================================================
